---- MODULE Spec2Model ----
(***************************************************************************)
(* A model of one gree_versati device handle (AwhpDevice over BaseDevice   *)
(* over DeviceProtocol2): the encrypted UDP request/response engine, the   *)
(* binding procedure and the dirty-property synchronisation.               *)
(*                                                                         *)
(* The handle runs on one asyncio event loop.  Code between two awaits     *)
(* that really suspend is atomic, so every action below runs a coroutine   *)
(* from one suspension point to the next.  The bodies are written as       *)
(* operators from a state record to the set of states the code can reach   *)
(* at its next suspension (or return), so that a nested call such as       *)
(* update_state -> bind -> __bind_internal -> send is one composition.     *)
(***************************************************************************)
EXTENDS Integers, Sequences, FiniteSets, TLC

\* ---------------------------------------------------------------- bounds
\* Datagrams from the device that are in flight towards the handle.
MaxInbox == 1
\* Callback registrations held by the handler registry, over all responses.
MaxHandlers == 2

\* ------------------------------------------------------- program constants
batch_size == 23

\* Python's None as a property value (dict.get on a missing key).
NoneVal == -1
\* Python's None for strings (hid, version, key and cipher arguments).
NoneStr == "None"

\* base_device.TEMP_OFFSET
TEMP_OFFSET == 40

AwhpProps ==
    << "AllInWatTemHi", "AllInWatTemLo", "AllOutWatTemHi", "AllOutWatTemLo",
       "HepOutWatTemHi", "HepOutWatTemLo", "WatBoxTemHi", "WatBoxTemLo",
       "RmoHomTemHi", "RmoHomTemLo", "WatBoxElcHeRunSta", "SyAnFroRunSta",
       "ElcHe1RunSta", "ElcHe2RunSta", "AnFrzzRunSta",
       "Pow", "Mod", "CoWatOutTemSet", "HeWatOutTemSet", "WatBoxTemSet",
       "TemUn", "TemRec", "AllErr",
       "ColHtWter", "HetHtWter", "TemRecB", "CoHomTemSet", "HeHomTemSet",
       "FastHtWter", "Quiet", "LefHom", "SwDisFct",
       "SvSt", "VersatiSeries", "RomHomTemExt", "WatBoxExt", "FocModSwh",
       "Emegcy", "HanFroSwh", "WatSyExhSwh", "BordTest", "ColColetSwh",
       "EndTemCotSwh", "ModelType", "EVU" >>

\* device.Props, in the order of the enumeration.
Props ==
    << "Pow", "Mod", "Dwet", "DwatSen", "Dfltr", "DwatFul", "Dmod",
       "SetTem", "TemSen", "TemUn", "TemRec", "WdSpd", "Air", "Blo", "Health",
       "SwhSlp", "SlpMod", "Lig", "SwingLfRig", "SwUpDn", "Quiet", "Tur",
       "StHt", "SvSt", "HeatCoolType" >>

\* The two setters exercised, AwhpDevice.power and AwhpDevice.fast_heat_water,
\* and the values they store: int(value) of a bool.
SetKeys == {"Pow", "FastHtWter"}
Vals == {0, 1}

\* Device: the limits of a setpoint in Celsius, and the Fahrenheit and
\* Celsius values a caller sets.
TEMP_MIN == 8
TEMP_MAX == 30
Temps == {20, 66, 67}

\* ---------------------------------------------------------------- ciphers
\* A cipher object is its variant and its key.
NoCipher == [v |-> "None", key |-> "None"]
CipherV1 == [v |-> "V1", key |-> "a3K8Bx%2r8Y7#xDh"]
CipherV2 == [v |-> "V2", key |-> "{yxAHAY_Lm6pbC/<"]
NewCipher(v) == IF v = "V1" THEN CipherV1 ELSE CipherV2
\* A pack that arrives as a JSON object instead of a base64 string.
Plain == [v |-> "plain", key |-> "None"]

\* Keys: the one the device hands out in bindok (and a caller that kept it
\* installs directly), and one carried by a packet from elsewhere.
DeviceKey == "St8Vw1Yz4Bc7Ef0H"
ForeignKey == "fake-key"

\* Firmware ids a device may report; a dat pack carries one by its index.
HidTable ==
    << "362001000762+U-CS532AE(LT)V3.31.bin", "invalid_hid_format",
       "U-V1.21.bin.old", "U-V1.21.bin" >>

\* The characters of a firmware id and of a version number.
HidChars ==
    ("362001000762+U-CS532AE(LT)V3.31.bin" :>
        << "3", "6", "2", "0", "0", "1", "0", "0", "0", "7", "6", "2", "+", "U", "-", "C",
           "S", "5", "3", "2", "A", "E", "(", "L", "T", ")", "V", "3", ".", "3", "1", ".",
           "b", "i", "n" >>)
    @@ ("invalid_hid_format" :>
        << "i", "n", "v", "a", "l", "i", "d", "_", "h", "i", "d", "_", "f", "o", "r", "m",
           "a", "t" >>)
    @@ ("U-V1.21.bin.old" :> << "U", "-", "V", "1", ".", "2", "1", ".", "b", "i", "n", ".", "o", "l", "d" >>)
    @@ ("U-V1.21.bin" :> << "U", "-", "V", "1", ".", "2", "1", ".", "b", "i", "n" >>)
VersionChars ==
    ("3.31" :> << "3", ".", "3", "1" >>) @@ ("1.21" :> << "1", ".", "2", "1" >>)

\* ---------------------------------------------------------------- helpers
Min(a, b) == IF a < b THEN a ELSE b
Range(s) == {s[i] : i \in 1..Len(s)}
Last(s) == s[Len(s)]

\* dict.get(name): the value, or None.
Get(d, name) == IF name \in DOMAIN d THEN d[name] ELSE NoneVal

\* dict.update(other).
Update(d, other) ==
    [k \in DOMAIN d \cup DOMAIN other |-> IF k \in DOMAIN other THEN other[k] ELSE d[k]]

\* dict(zip(keys, vals)): pairs up to the shorter list, a later pair wins.
Zip(keys, vals) ==
    LET n == Min(Len(keys), Len(vals))
    IN [k \in {keys[i] : i \in 1..n} |->
            vals[CHOOSE i \in 1..n : keys[i] = k /\ \A j \in 1..n : keys[j] = k => j <= i]]

\* A dict without one key (kwargs.pop).
Without(d, k) == [x \in DOMAIN d \ {k} |-> d[x]]

\* list(dict.keys()) of a dict filled in the order of seq: first occurrences.
RECURSIVE DictKeys(_)
DictKeys(seq) ==
    IF seq = << >> THEN << >>
    ELSE LET front == DictKeys(SubSeq(seq, 1, Len(seq) - 1))
         IN IF Last(seq) \in Range(front) THEN front ELSE Append(front, Last(seq))

\* Slices with every slice one key short.
RECURSIVE Slices_short(_, _, _)
Slices_short(all_props, i, n) ==
    IF i >= Len(all_props) THEN << >>
    ELSE << SubSeq(all_props, i + 1, Min(i + n - 1, Len(all_props))) >>
             \o Slices_short(all_props, i + n, n)

\* [all_props[i : i + n] for i in range(start, len(all_props), n)]
RECURSIVE Slices(_, _, _)
Slices(all_props, i, n) ==
    IF i >= Len(all_props) THEN << >>
    ELSE << SubSeq(all_props, i + 1, Min(i + n, Len(all_props))) >>
             \o Slices(all_props, i + n, n)

\* re.search(r"(?<=V)([\d.]+)\.bin$", hid): the digits and dots between a
\* "V" and the ".bin" the string ends with, or None.
Search(c) ==
    LET n == Len(c)
        digits == {"0", "1", "2", "3", "4", "5", "6", "7", "8", "9", "."}
        starts == { s \in 2..(n - 4) :
                      /\ c[s - 1] = "V"
                      /\ \A j \in s..(n - 4) : c[j] \in digits
                      /\ SubSeq(c, n - 3, n) = << ".", "b", "i", "n" >> }
    IN  IF starts = {} THEN << >>
        ELSE SubSeq(c, CHOOSE s \in starts : \A x \in starts : s <= x, n - 4)

MatchVersion(h) ==
    LET group == Search(HidChars[h])
    IN  IF group = << >> THEN NoneStr
        ELSE CHOOSE v \in DOMAIN VersionChars : VersionChars[v] = group

\* ------------------------------------------------------------------ state
VARIABLES
    \* the handle (BaseDevice / DeviceProtocol2 fields)
    device_info,        \* TRUE when a DeviceInfo is held, FALSE when None
    _transport,         \* "None", "open", or "closing": held, but closed already
    loop_closed,        \* the event loop of the handle (_loop) has been closed
    _cipher,            \* NoCipher or the installed cipher object
    _drained,           \* asyncio.Event
    _ready,             \* asyncio.Event
    _handlers,          \* response type -> list of registered callbacks
    _properties,        \* dict: wire key -> value
    _dirty,             \* list of wire keys
    hid,
    version,
    \* the caller's coroutine
    pc,                 \* where it is suspended, "idle" when none runs
    op,                 \* the public operation last called
    cipher_arg,         \* bind's cipher argument
    trial,              \* variant of the cipher under trial
    property_batches,   \* update_state's local list of batches
    batch_i,            \* number of batches requested so far
    result,             \* how the last operation ended
    \* the network
    device,             \* the unit: its cipher variant and firmware id
    inbox,              \* datagrams on their way to the handle
    \* observations
    sentLog,            \* datagrams written to the transport by this operation
    h_call,             \* _dirty and _cipher when the operation was called
    h_timeouts,         \* bind trials of this operation that timed out
    h_snap,             \* _dirty and _properties when push took its snapshot
    h_set_in_flight,    \* key -> value last set, for keys set during a push's send
    check_version,      \* BaseDevice.check_version
    h_written,          \* key -> value set_property was last called with, for the
                        \* keys a caller's call left in _dirty since the last push
    h_got_resp,         \* a dat for the batch requested last was dispatched
    h_hid_unknown,      \* hid was unknown when update_state built its key list
    h_disp,             \* what the datagram_received call of this step did
    h_eq,               \* the last comparison: the other object, and what
                        \* __eq__ and __ne__ returned
    h_msg,              \* the last message built: the builder's arguments, the
                        \* message, and for a status message DeviceProtocol2's
    h_crypt,            \* the last use of a cipher object: the property map
                        \* encrypted, the pack and tag, and what decrypt returned
    h_ret,              \* the last get_property call: its key and what it returned
    h_temp              \* "set": target_temperature stored a Fahrenheit value no
                        \* push has snapshotted; "pushed": this push snapshotted it

vars ==
    << device_info, _transport, _cipher, _drained, _ready, _properties, _dirty,
       hid, version, pc, op, cipher_arg, trial, property_batches, batch_i,
       result, device, inbox, sentLog, h_call, h_timeouts, h_snap,
       h_set_in_flight, h_got_resp, h_hid_unknown, _handlers, h_disp, loop_closed,
       h_temp, h_ret, h_eq, h_msg, h_crypt, h_written, check_version >>

\* What one datagram_received call did: the shape of its datagram, whether
\* it reached packet_received, the response type read there, the calls of
\* handle_unknown_packet, the callbacks invoked in order, the exception
\* raised inside and the exception on its way out ("none" when there is
\* none); the arguments extracted for the internal handler, those given to
\* the callbacks, and what the first callback found on the handle.
NoArgs == [key |-> "None", data |-> [k \in {} |-> 0]]
NoSaw ==
    [ready |-> FALSE, cipher |-> [v |-> "None", key |-> "None"], props |-> [k \in {} |-> 0]]

NoDisp ==
    [ raw |-> "none", received |-> FALSE, resp |-> "none", unknown |-> 0,
      invoked |-> << >>, raised |-> "none", exc |-> "none",
      args |-> NoArgs, cb_args |-> NoArgs, cb_saw |-> NoSaw,
      calls |-> 0, pack |-> "none" ]

\* The current state as a record, and its installation as the next state.
\* The record of a datagram_received call lasts until that call has
\* returned, and nothing else runs on the event loop before it has.
Cur ==
    [ device_info |-> device_info, _transport |-> _transport, _cipher |-> _cipher,
      _drained |-> _drained, _ready |-> _ready, _properties |-> _properties,
      _dirty |-> _dirty, hid |-> hid, version |-> version, pc |-> pc, op |-> op,
      cipher_arg |-> cipher_arg, trial |-> trial,
      property_batches |-> property_batches, batch_i |-> batch_i,
      result |-> result, device |-> device, inbox |-> inbox, sentLog |-> sentLog,
      h_call |-> h_call, h_timeouts |-> h_timeouts, h_snap |-> h_snap,
      h_set_in_flight |-> h_set_in_flight, h_got_resp |-> h_got_resp,
      h_hid_unknown |-> h_hid_unknown, _handlers |-> _handlers,
      h_disp |-> NoDisp, loop_closed |-> loop_closed, h_temp |-> h_temp,
      h_ret |-> h_ret, h_eq |-> h_eq, h_msg |-> h_msg, h_crypt |-> h_crypt,
      h_written |-> h_written, check_version |-> check_version ]

Install(s) ==
    /\ h_disp = NoDisp
    /\ device_info' = s.device_info
    /\ _transport' = s._transport
    /\ _cipher' = s._cipher
    /\ _drained' = s._drained
    /\ _ready' = s._ready
    /\ _properties' = s._properties
    /\ _dirty' = s._dirty
    /\ hid' = s.hid
    /\ version' = s.version
    /\ pc' = s.pc
    /\ op' = s.op
    /\ cipher_arg' = s.cipher_arg
    /\ trial' = s.trial
    /\ property_batches' = s.property_batches
    /\ batch_i' = s.batch_i
    /\ result' = s.result
    /\ device' = s.device
    /\ inbox' = s.inbox
    /\ sentLog' = s.sentLog
    /\ h_call' = s.h_call
    /\ h_timeouts' = s.h_timeouts
    /\ h_snap' = s.h_snap
    /\ h_set_in_flight' = s.h_set_in_flight
    /\ h_got_resp' = s.h_got_resp
    /\ h_hid_unknown' = s.h_hid_unknown
    /\ _handlers' = s._handlers
    /\ h_disp' = s.h_disp
    /\ loop_closed' = s.loop_closed
    /\ h_temp' = s.h_temp
    /\ h_ret' = s.h_ret
    /\ h_eq' = s.h_eq
    /\ h_msg' = s.h_msg
    /\ h_crypt' = s.h_crypt
    /\ h_written' = s.h_written
    /\ check_version' = s.check_version

EmptyDict == [k \in {} |-> 0]
NoSnap == [taken |-> FALSE, dirty |-> << >>, props |-> EmptyDict]
NoCall == [dirty |-> << >>, cipher |-> NoCipher]
NoRet == [name |-> "none", value |-> NoneVal]

\* The data argument None of a message builder (a dict is a function from
\* field names), and no message built.
NoData == [none |-> TRUE]
NoMsg ==
    [ builder |-> "none", command |-> "none", mac |-> "none", data |-> NoData,
      out |-> NoData, base |-> NoData ]

\* No cipher object used yet.  A ciphertext is the key and the mode it was
\* made with and the bytes it hides; base64 text is marked as such.
NoCrypt ==
    [ at |-> "none", v |-> "None", key |-> "None", x |-> EmptyDict,
      pack |-> [b64 |-> [k |-> "None", mode |-> "None", data |-> << >>]],
      tag |-> FALSE, with |-> "None", dec |-> [raised |-> "none", value |-> EmptyDict] ]

\* What __eq__ reads of a handle.  A DeviceInfo is "A" (the one this handle
\* was given) or "B", or "None"; is_device is isinstance(other, BaseDevice).
Handle(s) ==
    [ is_device |-> TRUE, device_info |-> IF s.device_info THEN "A" ELSE "None",
      _cipher |-> s._cipher, _dirty |-> s._dirty, _properties |-> s._properties ]

\* The objects a handle is compared with: other handles, and an object that
\* is no device.
Others ==
    [ is_device : {TRUE}, device_info : {"None", "A", "B"},
      _cipher : {NoCipher, [v |-> "V1", key |-> DeviceKey], [v |-> "V2", key |-> DeviceKey],
                 [v |-> "V1", key |-> ForeignKey]},
      _dirty : {<< >>, << "Pow" >>},
      _properties : {EmptyDict, [k \in {"Pow"} |-> 1], [k \in {"Pow"} |-> 0]} ]
    \cup
    { [ is_device |-> FALSE, device_info |-> "None", _cipher |-> NoCipher,
        _dirty |-> << >>, _properties |-> EmptyDict ] }

NoEq == [called |-> FALSE, other |-> Handle([device_info |-> FALSE, _cipher |-> NoCipher,
                                             _dirty |-> << >>, _properties |-> EmptyDict]),
         eq |-> FALSE, ne |-> FALSE]
\* Response, and the callbacks a caller registers: two that return and one
\* that raises.
Response == {"bindok", "dat", "res"}
Callbacks == {"cb1", "cb2"}
Raising == {"cb_raises"}

Init ==
    /\ device_info \in BOOLEAN
    /\ _transport = "None"
    /\ _cipher = NoCipher
    /\ _drained = TRUE
    /\ _ready = FALSE
    /\ _properties = EmptyDict
    /\ _dirty = << >>
    /\ hid = NoneStr
    /\ version = NoneStr
    /\ pc = "idle"
    /\ op = "none"
    /\ cipher_arg = NoneStr
    /\ trial = NoneStr
    /\ property_batches = << >>
    /\ batch_i = 0
    /\ result = "none"
    /\ device \in [v : {"V1", "V2"}, hid : {1}]
    /\ inbox = {}
    /\ sentLog = << >>
    /\ h_call = NoCall
    /\ h_timeouts = 0
    /\ h_snap = NoSnap
    /\ h_set_in_flight = EmptyDict
    /\ h_got_resp = FALSE
    /\ h_hid_unknown = FALSE
    /\ _handlers = [r \in Response |-> << >>]
    /\ h_disp = NoDisp
    /\ loop_closed = FALSE
    /\ h_temp = "none"
    /\ h_ret = NoRet
    /\ h_eq = NoEq
    /\ h_msg = NoMsg
    /\ h_crypt = NoCrypt
    /\ h_written = EmptyDict
    /\ check_version = TRUE

\* ---------------------------------------------------------- wire messages
\* The MAC address in the DeviceInfo of the handle, and another one.
MAC == "aabbcc112233"
Macs == {MAC, "ddeeff445566"}

\* Commands
CommandKinds == {"bind", "cmd", "pack", "scan", "status"}

\* _generate_payload with i = 1 for bind alone.
_generate_payload_i_for_bind(command, mac, data) ==
    LET payload == [ cid |-> "app", i |-> IF command = "bind" THEN 1 ELSE 0,
                     t |-> IF data # NoData THEN "pack" ELSE command,
                     uid |-> 0, tcid |-> mac ]
    IN  IF data # NoData
        THEN payload @@ [pack |-> Update([t |-> command, mac |-> mac], data)]
        ELSE payload

\* DeviceProtocol2._generate_payload
_generate_payload(command, mac, data) ==
    LET payload == [ cid |-> "app", i |-> IF command \in {"bind", "scan"} THEN 1 ELSE 0,
                     t |-> IF data # NoData THEN "pack" ELSE command,
                     uid |-> 0, tcid |-> mac ]
    IN  IF data # NoData
        THEN payload @@ [pack |-> Update([t |-> command, mac |-> mac], data)]
        ELSE payload

\* DeviceProtocol2.create_bind_message, create_status_message and
\* create_command_message (opt and p: the keys and the values of kwargs).
create_bind_message(mac) == _generate_payload("bind", mac, [uid |-> 0])
DeviceProtocol2_create_status_message(mac, cols) ==
    _generate_payload("status", mac, [cols |-> cols])
create_command_message(mac, opt, p) == _generate_payload("cmd", mac, [opt |-> opt, p |-> p])

\* BaseDevice.create_status_message, which overrides DeviceProtocol2's.
create_status_message(mac, cols) ==
    [ cid |-> "app", i |-> 0, t |-> "pack", uid |-> 0, tcid |-> mac,
      pack |-> [mac |-> mac, t |-> "status", cols |-> cols] ]

\* The payloads a builder is given: none, an empty one, and those of the
\* three messages.
Payloads ==
    { NoData, [k \in {} |-> 0], [uid |-> 0], [cols |-> << >>], [cols |-> << "Pow", "hid" >>],
      [opt |-> << "Pow" >>, p |-> << 1 >>] }

\* obj.get("pack"), and what a pack lists: the cols of a status request, the
\* opt and p of a command.
HasPack(obj) == "pack" \in DOMAIN obj
PackKeys(pack) ==
    IF "cols" \in DOMAIN pack THEN pack.cols
    ELSE IF "opt" \in DOMAIN pack THEN pack.opt ELSE << >>
PackVals(pack) == IF "p" \in DOMAIN pack THEN pack.p ELSE << >>

\* ------------------------------------------------------------ environment
\* The unit answers a request it can decrypt.  A bind request must use the
\* default key of the unit's cipher variant; the answer carries the session
\* key.  Status and command requests must use the session key; the unit
\* reports 0 for every property and echoes a command's values.
DatPacks(cols) ==
    { [ t |-> "dat", key |-> NoneStr, keys |-> cols,
        vals |-> [ i \in 1..Len(cols) |-> IF cols[i] = "hid" THEN device.hid ELSE 0 ] ] }

DeviceReplies(wire) ==
    LET session == [v |-> device.v, key |-> DeviceKey]
    IN  IF wire.t = "bind" /\ wire.enc = NewCipher(device.v)
        THEN { [ raw |-> "json", enc |-> wire.enc,
                 pack |-> [t |-> "bindok", key |-> DeviceKey, keys |-> << >>, vals |-> << >>] ] }
        ELSE IF wire.t = "status" /\ wire.enc = session
        THEN { [raw |-> "json", enc |-> session, pack |-> p] : p \in DatPacks(wire.keys) }
        ELSE IF wire.t = "cmd" /\ wire.enc = session
        THEN { [ raw |-> "json", enc |-> session,
                 pack |-> [t |-> "res", key |-> NoneStr, keys |-> wire.keys, vals |-> wire.vals] ] }
        ELSE {}

\* The inboxes a written datagram can lead to: the request or its answer may
\* be lost, and at most MaxInbox answers are in flight.
Deliver(box, wire) ==
    {box} \cup IF Cardinality(box) < MaxInbox
               THEN {box \cup {r} : r \in DeviceReplies(wire)}
               ELSE {}

\* Datagrams that reach the socket without coming from the unit's session:
\* packs sent as plain JSON objects.
Foreign ==
    { [ raw |-> "json", enc |-> Plain,
        pack |-> [t |-> "bindok", key |-> ForeignKey, keys |-> << >>, vals |-> << >>] ] }
    \cup
    { [ raw |-> "json", enc |-> Plain,
        pack |-> [t |-> "dat", key |-> NoneStr, keys |-> << "Pow" >>, vals |-> << v >>] ]
      : v \in Vals }

\* How the bytes of a datagram parse (raw):
\*   "empty"      no bytes
\*   "nonjson"    bytes that are not JSON
\*   "nonobject"  JSON that is not an object
\*   "nopack"     an object without a pack
\*   "badpack"    a pack without the field its type is read by
\*   "badcols"    a dat pack whose column names are not strings
\*   "json"       an object with a well-formed pack
NoPack == [t |-> NoneStr, key |-> NoneStr, keys |-> << >>, vals |-> << >>]

Malformed ==
    { [raw |-> r, enc |-> Plain, pack |-> NoPack] : r \in {"empty", "nonjson", "nonobject"} }
    \cup
    { [raw |-> "badpack", enc |-> Plain, pack |-> [NoPack EXCEPT !.t = ty]]
      : ty \in {"bindok", "dat"} }
    \cup
    { [ raw |-> "badcols", enc |-> Plain,
        pack |-> [NoPack EXCEPT !.t = "dat", !.vals = << 1 >>] ],
      [ raw |-> "json", enc |-> [v |-> "V1", key |-> ForeignKey],
        pack |-> [NoPack EXCEPT !.t = "dat", !.keys = << "Pow" >>, !.vals = << 1 >>] ] }

\* Packets that are of no known response type.
Unknown ==
    { [raw |-> "json", enc |-> Plain, pack |-> [NoPack EXCEPT !.t = "unknown"]],
      [raw |-> "nopack", enc |-> Plain, pack |-> NoPack] }

\* State updates: with a column listed twice, with one value too few, with a
\* firmware id, a command response, and one under the session key.
Updates ==
    { [ raw |-> "json", enc |-> Plain,
        pack |-> [NoPack EXCEPT !.t = "dat", !.keys = << "Pow", "FastHtWter", "Pow" >>,
                                !.vals = << 0, 1, 1 >>] ],
      [ raw |-> "json", enc |-> Plain,
        pack |-> [NoPack EXCEPT !.t = "dat", !.keys = << "Pow", "FastHtWter" >>,
                                !.vals = << 0 >>] ],
      [ raw |-> "json", enc |-> Plain,
        pack |-> [NoPack EXCEPT !.t = "dat", !.keys = << "hid", "FastHtWter" >>,
                                !.vals = << 1, 0 >>] ],
      [ raw |-> "json", enc |-> Plain,
        pack |-> [NoPack EXCEPT !.t = "res", !.keys = << "Pow" >>, !.vals = << 1 >>] ],
      [ raw |-> "json", enc |-> [v |-> "V1", key |-> DeviceKey],
        pack |-> [NoPack EXCEPT !.t = "dat", !.keys = << "FastHtWter" >>, !.vals = << 1 >>] ] }

\* State updates with each firmware id and without one.
HidUpdates ==
    { [ raw |-> "json", enc |-> Plain,
        pack |-> [NoPack EXCEPT !.t = "dat", !.keys = << "hid", "Pow" >>, !.vals = << h, v >>] ]
      : h \in 1..Len(HidTable), v \in Vals }
    \cup
    { [ raw |-> "json", enc |-> Plain,
        pack |-> [NoPack EXCEPT !.t = ty, !.keys = << "Pow", "Mod" >>, !.vals = << v, 3 >>] ]
      : ty \in {"dat", "res"}, v \in Vals }

\* What a Device is told of its state: sensor readings (none, zero, below
\* and above the offset), with a firmware id or without, and other keys.
SensorUpdates ==
    { [k \in {"TemSen"} |-> r] : r \in {0, 25, 65} }
    \cup { [k \in {"TemSen", "hid"} |-> IF k = "hid" THEN h ELSE r] : r \in {25, 65}, h \in {1, 2} }
    \cup { [k \in {"hid"} |-> 1], [k \in {"Pow"} |-> 1] }

\* ------------------------------------------------------- cipher objects
\* Text is a sequence of code points and bytes a sequence of byte values;
\* str.encode and bytes.decode map a code point below 128 to the byte of
\* that value and back, and decode raises on a byte that is none.
Encode(text) == text
Decodable(bytes) == \A i \in 1..Len(bytes) : bytes[i] < 128

\* The property maps encrypted: wire keys with small values, serialised
\* in the order of CipherKeys.
CipherKeys == << "Mod", "Pow", "SwDisFct" >>
KeyText == [ Mod |-> << 77, 111, 100 >>, Pow |-> << 80, 111, 119 >>, SwDisFct |-> << 83, 119, 68, 105, 115, 70, 99, 116 >> ]
PropertyMaps ==
    UNION { [ks -> {0, 1, 10}] : ks \in SUBSET Range(CipherKeys) }

\* str(n) of a natural number.
RECURSIVE IntText(_)
IntText(n) == IF n < 10 THEN << 48 + n >> ELSE IntText(n \div 10) \o << 48 + (n % 10) >>

\* json.dumps of a dict of ints: {"k": v, "k": v}
RECURSIVE Items(_, _)
Items(keys, x) ==
    IF keys = << >> THEN << >>
    ELSE << 34 >> \o KeyText[Head(keys)] \o << 34, 58, 32 >> \o IntText(x[Head(keys)])
         \o (IF Tail(keys) = << >> THEN << >> ELSE << 44, 32 >> \o Items(Tail(keys), x))

json_dumps(x) ==
    << 123 >> \o Items(SelectSeq(CipherKeys, LAMBDA k : k \in DOMAIN x), x) \o << 125 >>

\* json.loads: the dict a text is the serialisation of; it raises on any
\* other text.
json_loads(text) ==
    IF \E x \in PropertyMaps : json_dumps(x) = text
    THEN [raised |-> "none", value |-> CHOOSE x \in PropertyMaps : json_dumps(x) = text]
    ELSE [raised |-> "JSONDecodeError", value |-> EmptyDict]

\* CipherV1.__pad: chr(n) n times, n = 16 - len(s) % 16 (16 when the length
\* is a multiple of 16).
pad(s) == s \o [i \in 1..(16 - (Len(s) % 16)) |-> 16 - (Len(s) % 16)]

\* AES in ECB mode takes whole blocks of 16 bytes; GCM takes any length.
\* Decryption with the key of the encryption gives the bytes back, with
\* another key as many bytes of no meaning.
AES_encrypt(key, mode, data) ==
    IF mode = "ECB" /\ Len(data) % 16 # 0
    THEN [raised |-> "ValueError", out |-> [k |-> key, mode |-> mode, data |-> << >>]]
    ELSE [raised |-> "none", out |-> [k |-> key, mode |-> mode, data |-> data]]

AES_decrypt(key, mode, c) ==
    IF c.k = key /\ c.mode = mode THEN c.data ELSE [i \in 1..Len(c.data) |-> 255]

b64encode(bytes) == [b64 |-> bytes]
b64decode(text) == text.b64

\* str.replace(old, ""): every occurrence of old is taken out, from the
\* left; an empty old leaves the string as it is.
RECURSIVE Remove(_, _)
Remove(s, old) ==
    IF old = << >> \/ Len(s) < Len(old) THEN s
    ELSE IF SubSeq(s, 1, Len(old)) = old THEN Remove(SubSeq(s, Len(old) + 1, Len(s)), old)
    ELSE << Head(s) >> \o Remove(Tail(s), old)

\* decrypted[decrypted.rindex("}") + 1 :], given that a "}" is there.
AfterLastBrace(s) ==
    LET i == CHOOSE i \in 1..Len(s) : s[i] = 125 /\ \A j \in (i + 1)..Len(s) : s[j] # 125
    IN  SubSeq(s, i + 1, Len(s))

\* The last three lines of both decrypt methods, on the decrypted bytes.
Unwrap(bytes) ==
    IF ~Decodable(bytes) THEN [raised |-> "UnicodeDecodeError", value |-> EmptyDict]
    ELSE IF 125 \notin Range(bytes) THEN [raised |-> "ValueError", value |-> EmptyDict]
    ELSE json_loads(Remove(bytes, AfterLastBrace(bytes)))

\* CipherV1.encrypt and CipherV2.encrypt: the pack, and whether a tag comes
\* with it.
CipherV1_encrypt(key, data) ==
    LET e == AES_encrypt(key, "ECB", Encode(pad(json_dumps(data))))
    IN  [raised |-> e.raised, pack |-> b64encode(e.out), tag |-> FALSE]

CipherV2_encrypt(key, data) ==
    LET e == AES_encrypt(key, "GCM", Encode(json_dumps(data)))
    IN  [raised |-> e.raised, pack |-> b64encode(e.out), tag |-> TRUE]

\* CipherV1.decrypt that parses the decrypted text with its padding.
CipherV1_decrypt_keeps_padding(key, pack) ==
    LET bytes == AES_decrypt(key, "ECB", b64decode(pack))
    IN  IF ~Decodable(bytes) THEN [raised |-> "UnicodeDecodeError", value |-> EmptyDict]
        ELSE json_loads(bytes)

\* CipherV1.decrypt and CipherV2.decrypt
CipherV1_decrypt(key, pack) == Unwrap(AES_decrypt(key, "ECB", b64decode(pack)))
CipherV2_decrypt(key, pack) == Unwrap(AES_decrypt(key, "GCM", b64decode(pack)))

\* ------------------------------------------------------- coroutine bodies
\* An operation ends: by an exception that reaches the caller, or normally.
\* The awaiting caller runs on at once, so nothing else happens in "done".
Raise(s, e) == [s EXCEPT !.pc = "done", !.result = e]
Return(s) == [s EXCEPT !.pc = "done", !.result = "ok"]

\* send that encrypts a key-exchange message with the cipher it is given and
\* leaves the installed cipher alone.
send_keeps_cipher(s, obj, cipher, at) ==
    IF ~HasPack(obj)
    THEN IF s._transport = "None" THEN {Raise(s, "RuntimeError")}
         ELSE {[s EXCEPT !.sentLog = Append(@, [t |-> obj.t, enc |-> Plain,
                                                keys |-> << >>, vals |-> << >>]),
                         !.pc = at]}
    ELSE IF obj.i = 1 /\ cipher = NoCipher
    THEN {Raise(s, "ValueError")}
    ELSE LET used == IF obj.i = 1 THEN cipher ELSE s._cipher
             wire == [t |-> obj.pack.t, enc |-> used, keys |-> PackKeys(obj.pack),
                      vals |-> PackVals(obj.pack)]
         IN  IF used = NoCipher THEN {Raise(s, "ValueError")}
             ELSE IF s._transport = "None" THEN {Raise(s, "RuntimeError")}
             ELSE { [s EXCEPT !.sentLog = Append(@, wire), !.inbox = box, !.pc = at]
                    : box \in Deliver(s.inbox, wire) }

\* send that waits for the drained gate before it writes.
send_waits_before_write(s, obj, cipher, at) ==
    IF ~HasPack(obj)
    THEN IF s._transport = "None" THEN {Raise(s, "RuntimeError")}
         ELSE {[s EXCEPT !.sentLog = IF s._drained
                                         THEN Append(@, [t |-> obj.t, enc |-> Plain,
                                                         keys |-> << >>, vals |-> << >>])
                                         ELSE @,
                         !.pc = at]}
    ELSE IF obj.i = 1 /\ cipher = NoCipher
    THEN {Raise(s, "ValueError")}
    ELSE LET s1 == IF obj.i = 1 THEN [s EXCEPT !._cipher = cipher] ELSE s
             wire == [t |-> obj.pack.t, enc |-> s1._cipher, keys |-> PackKeys(obj.pack),
                      vals |-> PackVals(obj.pack)]
         IN  IF s1._cipher = NoCipher THEN {Raise(s1, "ValueError")}
             ELSE IF s1._transport = "None" THEN {Raise(s1, "RuntimeError")}
             ELSE IF ~s._drained THEN {[s1 EXCEPT !.pc = at]}
             ELSE { [s1 EXCEPT !.sentLog = Append(@, wire), !.inbox = box, !.pc = at]
                    : box \in Deliver(s1.inbox, wire) }

\* DeviceProtocolBase2.send up to its wait on the drained gate: the states it
\* suspends in (pc = at), or the state in which it raised.  A message
\* without a pack is written as it is; the unit answers it with a packet
\* for the discovery, not for a handle.
send(s, obj, cipher, at) ==
    IF ~HasPack(obj)
    THEN IF s._transport = "None" THEN {Raise(s, "RuntimeError")}
         ELSE {[s EXCEPT !.sentLog = Append(@, [t |-> obj.t, enc |-> Plain,
                                                keys |-> << >>, vals |-> << >>]),
                         !.pc = at]}
    ELSE IF obj.i = 1 /\ cipher = NoCipher
    THEN {Raise(s, "ValueError")}
    ELSE LET s1 == IF obj.i = 1 THEN [s EXCEPT !._cipher = cipher] ELSE s
             wire == [t |-> obj.pack.t, enc |-> s1._cipher, keys |-> PackKeys(obj.pack),
                      vals |-> PackVals(obj.pack)]
         IN  IF s1._cipher = NoCipher THEN {Raise(s1, "ValueError")}
             ELSE IF s1._transport = "None" THEN {Raise(s1, "RuntimeError")}
             ELSE { [s1 EXCEPT !.sentLog = Append(@, wire), !.inbox = box, !.pc = at]
                    : box \in Deliver(s1.inbox, wire) }

\* BaseDevice.__bind_internal up to the suspension inside send.
bind_internal(s, v) ==
    IF ~s.device_info THEN {Raise(s, "DeviceNotBoundError")}
    ELSE send([s EXCEPT !.trial = v], create_bind_message(MAC), NewCipher(v), "bind_send")

\* BaseDevice.bind from the try block on: the first candidate cipher.
bind_trials(s) ==
    bind_internal(s, IF s.cipher_arg # NoneStr THEN s.cipher_arg ELSE "V1")

\* AwhpDevice.update_state: one turn of the loop over property_batches.
update_loop(s) ==
    IF s.batch_i >= Len(s.property_batches) THEN {Return(s)}
    ELSE IF ~s.device_info THEN {Raise(s, "DeviceNotBoundError")}
    ELSE send([s EXCEPT !.batch_i = @ + 1, !.h_got_resp = FALSE],
              create_status_message(MAC, s.property_batches[s.batch_i + 1]),
              NoCipher, "us_send")

\* AwhpDevice.update_state after the session is ensured: build the batches
\* and request the first.
update_body(s) ==
    LET all_props == IF s.hid \in {NoneStr, ""} THEN Append(AwhpProps, "hid") ELSE AwhpProps
    IN  update_loop([s EXCEPT !.property_batches = Slices(all_props, 0, batch_size),
                              !.batch_i = 0,
                              !.h_hid_unknown = (s.hid \in {NoneStr, ""})])

\* Device.update_state after the session is ensured: one status request
\* for every key of Props, and hid when it is unknown.
device_update_body(s) ==
    LET props == IF s.hid \in {NoneStr, ""} THEN Append(Props, "hid") ELSE Props
    IN  IF ~s.device_info THEN {Raise(s, "DeviceNotBoundError")}
        ELSE send([s EXCEPT !.h_hid_unknown = (s.hid \in {NoneStr, ""})],
                  create_status_message(MAC, props), NoCipher, "dus_send")

\* push_body without self._dirty.clear().
push_body_keeps_dirty(s) ==
    LET opt == DictKeys(s._dirty)
        p == [i \in 1..Len(opt) |-> Get(s._properties, opt[i])]
        s1 == [s EXCEPT !.h_snap = [taken |-> TRUE, dirty |-> s._dirty, props |-> s._properties],
                        !.h_set_in_flight = EmptyDict]
    IN  IF ~s.device_info THEN {Raise(s1, "DeviceNotBoundError")}
        ELSE send(s1, create_command_message(MAC, opt, p), NoCipher, "ps_send")

\* AwhpDevice.push_state_update after the session is ensured: snapshot,
\* clear, send one command.
push_body(s) ==
    LET opt == DictKeys(s._dirty)
        p == [i \in 1..Len(opt) |-> Get(s._properties, opt[i])]
        s1 == [s EXCEPT !._dirty = << >>,
                        !.h_snap = [taken |-> TRUE, dirty |-> s._dirty, props |-> s._properties],
                        !.h_set_in_flight = EmptyDict,
                        !.h_written = EmptyDict]
    IN  IF ~s.device_info THEN {Raise(s1, "DeviceNotBoundError")}
        ELSE send(s1, create_command_message(MAC, opt, p), NoCipher, "ps_send")

\* The keys of the props dict of Device.push_state_update, filled in the
\* order of _dirty, SetTem bringing TemRec and TemUn with it.
RECURSIVE WithCompanions(_)
WithCompanions(names) ==
    IF names = << >> THEN << >>
    ELSE (IF Head(names) = "SetTem" THEN << "SetTem", "TemRec", "TemUn" >>
          ELSE << Head(names) >>) \o WithCompanions(Tail(names))

\* device_push_body that sends the dirty keys alone.
device_push_body_dirty_only(s) ==
    LET opt == DictKeys(s._dirty)
        p == [i \in 1..Len(opt) |-> Get(s._properties, opt[i])]
        s1 == [s EXCEPT !._dirty = << >>,
                        !.h_snap = [taken |-> TRUE, dirty |-> s._dirty, props |-> s._properties],
                        !.h_temp = IF @ = "set" THEN "pushed" ELSE @,
                        !.h_written = EmptyDict]
    IN  IF ~s.device_info THEN {Raise(s1, "DeviceNotBoundError")}
        ELSE send(s1, create_command_message(MAC, opt, p), NoCipher, "ps_send")

\* Device.push_state_update after the session is ensured: snapshot with the
\* companions of SetTem, clear, send one command.
device_push_body(s) ==
    LET opt == DictKeys(WithCompanions(s._dirty))
        p == [i \in 1..Len(opt) |-> Get(s._properties, opt[i])]
        s1 == [s EXCEPT !._dirty = << >>,
                        !.h_snap = [taken |-> TRUE, dirty |-> s._dirty, props |-> s._properties],
                        !.h_temp = IF @ = "set" THEN "pushed" ELSE @,
                        !.h_written = EmptyDict]
    IN  IF ~s.device_info THEN {Raise(s1, "DeviceNotBoundError")}
        ELSE send(s1, create_command_message(MAC, opt, p), NoCipher, "ps_send")

\* BaseDevice.request_version after the session is ensured.
version_body(s) ==
    IF ~s.device_info THEN {Raise(s, "DeviceNotBoundError")}
    ELSE send(s, create_status_message(MAC, << "hid" >>), NoCipher, "rv_send")

\* Where a bind that returned normally continues.
after_bind(s) ==
    IF s.op = "update_state" THEN update_body(s)
    ELSE IF s.op = "push_state_update" THEN push_body(s)
    ELSE IF s.op = "request_version" THEN version_body(s)
    ELSE IF s.op = "Device.push_state_update" THEN device_push_body(s)
    ELSE IF s.op = "Device.update_state" THEN device_update_body(s)
    ELSE {Return(s)}

\* bind that opens the endpoint before it looks for the DeviceInfo.
bind_opens_endpoint_first(s, key, cipher) ==
    IF key # NoneStr
    THEN IF cipher = NoneStr THEN {Raise(s, "ValueError")}
         ELSE after_bind([s EXCEPT !._cipher = [v |-> cipher, key |-> key]])
    ELSE IF s._transport = "None" THEN {[s EXCEPT !.pc = "bind_endpoint"]}
    ELSE bind_trials(s)

\* bind that looks for the DeviceInfo before it looks at the key.
bind_needs_info(s, key, cipher) ==
    IF ~s.device_info THEN {Raise(s, "DeviceNotBoundError")}
    ELSE IF key # NoneStr
    THEN IF cipher = NoneStr THEN {Raise(s, "ValueError")}
         ELSE after_bind([s EXCEPT !._cipher = [v |-> cipher, key |-> key]])
    ELSE IF s._transport = "None" THEN {[s EXCEPT !.pc = "bind_endpoint"]}
    ELSE bind_trials(s)

\* BaseDevice.bind from its call to its first suspension.
bind(s, key, cipher) ==
    IF key # NoneStr
    THEN IF cipher = NoneStr THEN {Raise(s, "ValueError")}
         ELSE after_bind([s EXCEPT !._cipher = [v |-> cipher, key |-> key]])
    ELSE IF ~s.device_info THEN {Raise(s, "DeviceNotBoundError")}
    ELSE IF s._transport = "None" THEN {[s EXCEPT !.pc = "bind_endpoint"]}
    ELSE bind_trials(s)

\* BaseDevice.bind once __bind_internal has returned.
bind_done(s) ==
    IF s._cipher = NoCipher THEN {Raise(s, "DeviceNotBoundError")}
    ELSE after_bind(s)

\* bind_timeout without the inner try: the first timeout is surfaced.
bind_timeout_no_fallback(s) ==
    {Raise([s EXCEPT !.h_timeouts = @ + 1], "DeviceTimeoutError")}

\* BaseDevice.bind when __bind_internal raised asyncio.TimeoutError.
bind_timeout(s) ==
    LET s1 == [s EXCEPT !.h_timeouts = @ + 1]
    IN  IF s.cipher_arg = NoneStr /\ s.trial = "V1"
        THEN bind_internal(s1, "V2")
        ELSE {Raise(s1, "DeviceTimeoutError")}

\* A public operation is called: the observations start afresh.
Called(s, name, cipher) ==
    [s EXCEPT !.op = name, !.result = "pending", !.cipher_arg = cipher,
              !.trial = NoneStr, !.sentLog = << >>, !.h_timeouts = 0,
              !.h_call = [dirty |-> s._dirty, cipher |-> s._cipher],
              !.h_snap = NoSnap, !.h_got_resp = FALSE]

\* update_state that binds whether or not a cipher is installed.
update_state_always_binds(s) ==
    bind(Called(s, "update_state", NoneStr), NoneStr, NoneStr)

\* AwhpDevice.update_state from its call to its first suspension.
update_state(s) ==
    LET s0 == Called(s, "update_state", NoneStr)
    IN  IF s._cipher = NoCipher THEN bind(s0, NoneStr, NoneStr) ELSE update_body(s0)

\* Device.update_state from its call to its first suspension.
device_update_state(s) ==
    LET s0 == Called(s, "Device.update_state", NoneStr)
    IN  IF s._cipher = NoCipher THEN bind(s0, NoneStr, NoneStr) ELSE device_update_body(s0)

\* BaseDevice.request_version from its call to its first suspension.
request_version(s) ==
    LET s0 == Called(s, "request_version", NoneStr)
    IN  IF s._cipher = NoCipher THEN bind(s0, NoneStr, NoneStr) ELSE version_body(s0)

\* push_state_update that ensures the session before it looks at _dirty.
push_state_update_binds_first(s) ==
    LET s0 == Called(s, "push_state_update", NoneStr)
    IN  IF s._cipher = NoCipher THEN bind(s0, NoneStr, NoneStr)
        ELSE IF s._dirty = << >> THEN {Return(s0)}
        ELSE push_body(s0)

\* push_state_update that clears _dirty before it ensures the session.
push_state_update_clears_first(s) ==
    LET s0 == Called(s, "push_state_update", NoneStr)
    IN  IF s._dirty = << >> THEN {Return(s0)}
        ELSE IF s._cipher = NoCipher THEN bind([s0 EXCEPT !._dirty = << >>], NoneStr, NoneStr)
        ELSE push_body(s0)

\* AwhpDevice.push_state_update from its call to its first suspension.
push_state_update(s) ==
    LET s0 == Called(s, "push_state_update", NoneStr)
    IN  IF s._dirty = << >> THEN {Return(s0)}
        ELSE IF s._cipher = NoCipher THEN bind(s0, NoneStr, NoneStr)
        ELSE push_body(s0)

\* Device.push_state_update from its call to its first suspension.
device_push_state_update(s) ==
    LET s0 == Called(s, "Device.push_state_update", NoneStr)
    IN  IF s._dirty = << >> THEN {Return(s0)}
        ELSE IF s._cipher = NoCipher THEN bind(s0, NoneStr, NoneStr)
        ELSE device_push_body(s0)

\* --------------------------------------------------------------- inbound
\* __eq__ without the two tests of the Dirty Sets.
eq_ignores_dirty(a, b) ==
    IF ~b.is_device THEN FALSE
    ELSE IF a.device_info # b.device_info THEN FALSE
    ELSE IF (a._cipher # NoCipher) # (b._cipher # NoCipher) THEN FALSE
    ELSE IF a._cipher # NoCipher /\ b._cipher # NoCipher /\ a._cipher.key # b._cipher.key
    THEN FALSE
    ELSE a._properties = b._properties

\* BaseDevice.__eq__ and __ne__
__eq__(a, b) ==
    IF ~b.is_device THEN FALSE
    ELSE IF a.device_info # b.device_info THEN FALSE
    ELSE IF (a._cipher # NoCipher) # (b._cipher # NoCipher) THEN FALSE
    ELSE IF a._cipher # NoCipher /\ b._cipher # NoCipher /\ a._cipher.key # b._cipher.key
    THEN FALSE
    ELSE IF a._dirty # << >> THEN FALSE
    ELSE IF b._dirty # << >> THEN FALSE
    ELSE a._properties = b._properties

__ne__(a, b) == ~__eq__(a, b)

\* get_property that reads a key never populated as 0.
get_property_unset_is_zero(s, name) ==
    IF name \in DOMAIN s._properties THEN s._properties[name] ELSE 0

\* BaseDevice.get_property: None for an empty Property Map, dict.get
\* otherwise.
get_property(s, name) ==
    IF s._properties = EmptyDict THEN NoneVal ELSE Get(s._properties, name)

\* set_property without the membership test before the append.
set_property_always_appends(s, name, value) ==
    IF Get(s._properties, name) = value THEN s
    ELSE [s EXCEPT !._properties = Update(@, name :> value),
                   !._dirty = Append(@, name)]

\* BaseDevice.set_property
set_property(s, name, value) ==
    IF Get(s._properties, name) = value THEN s
    ELSE [s EXCEPT !._properties = Update(@, name :> value),
                   !._dirty = IF name \in Range(@) THEN @ ELSE Append(@, name)]

\* device.generate_temperature_record: the Celsius setpoint nearest to
\* (temp_f - 32) * 5 / 9 (a value in ninths: never halfway), and whether the
\* exact value lies above it.
generate_temperature_record(temp_f) ==
    LET n == (temp_f - 32) * 5
        temSet == (2 * n + 9) \div 18
    IN  [temSet |-> temSet, temRec |-> IF n > 9 * temSet THEN 1 ELSE 0]

\* The setter Device.target_temperature; a value out of range raises
\* ValueError before anything is set.
set_target_temperature(s, value) ==
    LET rec == generate_temperature_record(value)
        valid(val) == ~(val > TEMP_MAX \/ val < TEMP_MIN)
    IN  IF Get(s._properties, "TemUn") = 1
        THEN IF valid(rec.temSet)
             THEN set_property(set_property(s, "SetTem", rec.temSet), "TemRec", rec.temRec)
             ELSE s
        ELSE IF valid(value) THEN set_property(s, "SetTem", value) ELSE s

\* Device.handle_state_update that looks at every sensor reading.
device_handle_state_update_checks_always(s, kwargs) ==
    LET new_hid == HidTable[kwargs["hid"]]
        s1 == IF "hid" \in DOMAIN kwargs
              THEN [s EXCEPT !.hid = new_hid,
                             !.version = IF new_hid # "" THEN MatchVersion(new_hid) ELSE @]
              ELSE s
        rest == IF "hid" \in DOMAIN kwargs THEN Without(kwargs, "hid") ELSE kwargs
        s2 == [s1 EXCEPT !._properties = Update(@, rest)]
        temp == Get(s2._properties, "TemSen")
    IN  IF "TemSen" \in DOMAIN rest
        THEN [s2 EXCEPT !.check_version = FALSE,
                        !.version = IF temp \notin {NoneVal, 0} /\ temp < TEMP_OFFSET
                                    THEN "4.0" ELSE @]
        ELSE s2

\* Device.handle_state_update: hid is taken out and gives the version (None
\* when it has none), the rest is merged, and the first update with TemSen
\* turns check_version off and makes the version "4.0" when the reading is
\* not zero and below TEMP_OFFSET.  The debug line that follows reads
\* current_temperature: it changes nothing, and what it may raise is raised
\* after the fields are set.
device_handle_state_update(s, kwargs) ==
    LET new_hid == HidTable[kwargs["hid"]]
        s1 == IF "hid" \in DOMAIN kwargs
              THEN [s EXCEPT !.hid = new_hid,
                             !.version = IF new_hid # "" THEN MatchVersion(new_hid) ELSE @]
              ELSE s
        rest == IF "hid" \in DOMAIN kwargs THEN Without(kwargs, "hid") ELSE kwargs
        s2 == [s1 EXCEPT !._properties = Update(@, rest)]
        temp == Get(s2._properties, "TemSen")
    IN  IF s.check_version /\ "TemSen" \in DOMAIN rest
        THEN [s2 EXCEPT !.check_version = FALSE,
                        !.version = IF temp \notin {NoneVal, 0} /\ temp < TEMP_OFFSET
                                    THEN "4.0" ELSE @]
        ELSE s2

\* handle_state_update that takes the version from every hid, None when
\* the hid has none.
handle_state_update_resets_version(s, kwargs) ==
    LET new_hid == HidTable[kwargs["hid"]]
        s1 == IF "hid" \in DOMAIN kwargs
              THEN [s EXCEPT !.hid = new_hid, !.version = MatchVersion(new_hid)]
              ELSE s
        rest == IF "hid" \in DOMAIN kwargs THEN Without(kwargs, "hid") ELSE kwargs
    IN  [s1 EXCEPT !._properties = Update(@, rest)]

\* handle_state_update that keeps the values the Property Map has.
handle_state_update_keeps_existing(s, kwargs) ==
    LET new_hid == HidTable[kwargs["hid"]]
        s1 == IF "hid" \in DOMAIN kwargs
              THEN [s EXCEPT !.hid = new_hid,
                             !.version = IF MatchVersion(new_hid) # NoneStr
                                         THEN MatchVersion(new_hid) ELSE @]
              ELSE s
        rest == IF "hid" \in DOMAIN kwargs THEN Without(kwargs, "hid") ELSE kwargs
    IN  [s1 EXCEPT !._properties = Update(rest, @)]

\* AwhpDevice.handle_state_update
handle_state_update(s, kwargs) ==
    LET new_hid == HidTable[kwargs["hid"]]
        s1 == IF "hid" \in DOMAIN kwargs
              THEN [s EXCEPT !.hid = new_hid,
                             !.version = IF MatchVersion(new_hid) # NoneStr
                                         THEN MatchVersion(new_hid) ELSE @]
              ELSE s
        rest == IF "hid" \in DOMAIN kwargs THEN Without(kwargs, "hid") ELSE kwargs
    IN  [s1 EXCEPT !._properties = Update(@, rest)]

\* handle_device_bound that signals the gate and drops the key.
handle_device_bound_drops_key(s, key) == [s EXCEPT !._ready = TRUE]

\* DeviceProtocol2.__handle_device_bound and BaseDevice.handle_device_bound
handle_device_bound(s, key) ==
    LET s1 == [s EXCEPT !._ready = TRUE]
    IN  IF s1._cipher # NoCipher THEN [s1 EXCEPT !._cipher.key = key] ELSE s1

\* CipherV1.decrypt / CipherV2.decrypt succeed on what the same variant
\* encrypted under the same key.
Decrypts(cipher, d) == cipher # NoCipher /\ d.enc = cipher

\* CallbacksFor without the test of the response type.
CallbacksFor_any(s, resp) ==
    IF resp \in Response THEN s._handlers[resp] ELSE s._handlers["dat"]

\* The callbacks packet_received runs when its handler returned: those
\* registered for the response type, none for another type.
CallbacksFor(s, resp) ==
    IF resp \in Response THEN s._handlers[resp] ELSE << >>

\* for callback in ...: callback(*param).  The callbacks run in order until
\* one raises.
RECURSIVE RunCallbacks(_)
RunCallbacks(cbs) ==
    IF cbs = << >> THEN << >>
    ELSE IF Head(cbs) \in Raising THEN << Head(cbs) >>
    ELSE << Head(cbs) >> \o RunCallbacks(Tail(cbs))

\* The else clause of packet_received's try: the callbacks are given the
\* arguments the handler was given, on the handle as the handler left it.
Invoke(s, cbs, args) ==
    LET ran == RunCallbacks(cbs)
        threw == ran # << >> /\ Last(ran) \in Raising
    IN  IF ran = << >> THEN s
        ELSE [s EXCEPT !.h_disp.invoked = ran,
                       !.h_disp.cb_args = args,
                       !.h_disp.cb_saw = [ready |-> s._ready, cipher |-> s._cipher,
                                          props |-> s._properties],
                       !.h_disp.raised = IF threw THEN "Exception" ELSE @,
                       !.h_disp.exc = IF threw THEN "Exception" ELSE @]

\* The params table of packet_received: the key of a bindok, the zipped
\* columns of a dat or res.
Params(d) ==
    IF d.pack.t = "bindok" THEN [key |-> d.pack.key, data |-> [k \in {} |-> 0]]
    ELSE [key |-> NoneStr, data |-> Zip(d.pack.keys, d.pack.vals)]

\* DeviceProtocol2.packet_received.  The pack is an object when it came as
\* one or was decrypted; a pack that stayed a string has no get
\* (AttributeError, caught here), a pack without the field its type is read
\* by gives KeyError (caught here), column names that are not strings make
\* handle_state_update(**data) raise TypeError, which is not caught here.
\* An object without a pack, and a pack of another type, go to
\* handle_unknown_packet.
packet_received(s, d) ==
    LET s0 == [s EXCEPT !.h_disp.received = TRUE, !.h_disp.calls = @ + 1]
        resp == d.pack.t
        unknown == Invoke([s0 EXCEPT !.h_disp.unknown = @ + 1],
                          CallbacksFor(s, resp), NoArgs)
    IN  IF d.raw = "nopack" THEN unknown
        ELSE IF ~(d.enc = Plain \/ Decrypts(s._cipher, d))
        THEN [s0 EXCEPT !.h_disp.raised = "AttributeError"]
        ELSE IF resp \notin Response THEN [unknown EXCEPT !.h_disp.resp = resp]
        ELSE IF d.raw = "badpack"
        THEN [s0 EXCEPT !.h_disp.resp = resp, !.h_disp.raised = "KeyError"]
        ELSE IF d.raw = "badcols"
        THEN [s0 EXCEPT !.h_disp.resp = resp, !.h_disp.raised = "TypeError",
                        !.h_disp.exc = "TypeError"]
        ELSE LET param == Params(d)
                 s1 == IF resp = "bindok" THEN handle_device_bound(s0, param.key)
                       ELSE handle_state_update(s0, param.data)
             IN  Invoke([s1 EXCEPT !.h_disp.resp = resp, !.h_disp.args = param],
                        CallbacksFor(s, resp), param)

\* Contained without the clause for Exception.
Contained_json_only(e) == IF e = "JSONDecodeError" THEN "none" ELSE e

\* The except clauses of datagram_received, json.JSONDecodeError and
\* Exception: what is still on its way out after them.
Contained(e) ==
    IF e \in {"JSONDecodeError", "AttributeError", "KeyError", "TypeError", "Exception"}
    THEN "none" ELSE e

\* obj["pack"] after the decryption block of datagram_received: absent,
\* replaced by what the installed cipher decrypted, or left as received
\* (there is no cipher, or decrypt raised and was logged).
Unpacked(s, d) ==
    IF d.raw = "nopack" THEN "absent"
    ELSE IF Decrypts(s._cipher, d) THEN "decrypted"
    ELSE "as_received"

\* datagram_received that drops an object whose pack it did not decrypt.
datagram_received_drops_undecrypted(s, d) ==
    LET s0 == [s EXCEPT !.h_disp.raw = d.raw]
    IN  IF d.raw = "empty" THEN s0
        ELSE LET s1 == IF d.raw = "nonjson"
                       THEN [s0 EXCEPT !.h_disp.raised = "JSONDecodeError",
                                       !.h_disp.exc = "JSONDecodeError"]
                       ELSE IF d.raw = "nonobject"
                       THEN [s0 EXCEPT !.h_disp.raised = "AttributeError",
                                       !.h_disp.exc = "AttributeError"]
                       ELSE IF Unpacked(s, d) = "as_received" THEN s0
                       ELSE packet_received([s0 EXCEPT !.h_disp.pack = Unpacked(s, d)], d)
             IN  [s1 EXCEPT !.h_disp.exc = Contained(@)]

\* DeviceProtocolBase2.datagram_received.  No bytes: return.  json.loads
\* raises on bytes that are not JSON, obj.get on JSON that is not an object.
\* A pack that is already an object is passed on undecrypted (decrypt raises
\* and is logged, or there is no cipher), and so is one that fails to
\* decrypt.
datagram_received(s, d) ==
    LET s0 == [s EXCEPT !.h_disp.raw = d.raw]
    IN  IF d.raw = "empty" THEN s0
        ELSE LET s1 == IF d.raw = "nonjson"
                       THEN [s0 EXCEPT !.h_disp.raised = "JSONDecodeError",
                                       !.h_disp.exc = "JSONDecodeError"]
                       ELSE IF d.raw = "nonobject"
                       THEN [s0 EXCEPT !.h_disp.raised = "AttributeError",
                                       !.h_disp.exc = "AttributeError"]
                       ELSE packet_received([s0 EXCEPT !.h_disp.pack = Unpacked(s, d)], d)
             IN  [s1 EXCEPT !.h_disp.exc = Contained(@)]

\* DeviceProtocol2.add_handler and remove_handler (list.remove: the first
\* occurrence).
RemoveFirst(seq, x) ==
    IF x \notin Range(seq) THEN seq
    ELSE LET i == CHOOSE i \in 1..Len(seq) :
                     seq[i] = x /\ \A j \in 1..(i - 1) : seq[j] # x
         IN  SubSeq(seq, 1, i - 1) \o SubSeq(seq, i + 1, Len(seq))

add_handler(s, event_name, callback) ==
    [s EXCEPT !._handlers[event_name] = Append(@, callback)]

\* remove_handler that removes every registration of the callback.
remove_handler_every(s, event_name, callback) ==
    [s EXCEPT !._handlers[event_name] = SelectSeq(@, LAMBDA c : c # callback)]

remove_handler(s, event_name, callback) ==
    [s EXCEPT !._handlers[event_name] = RemoveFirst(@, callback)]

\* DeviceProtocolBase2.close.  transport.close() on a transport whose event
\* loop is closed marks the transport as closing and then raises
\* RuntimeError (the loop accepts no callback); close catches it, and the
\* assignment of None after the call is skipped.  On a transport that is
\* closing already, transport.close() returns at once.
close(s) ==
    IF s._transport = "None" THEN s
    ELSE IF s._transport = "open" /\ s.loop_closed THEN [s EXCEPT !._transport = "closing"]
    ELSE [s EXCEPT !._transport = "None"]

\* connection_lost that forgets the cipher with the transport.
connection_lost_drops_cipher(s) ==
    IF s._transport = "None" THEN s
    ELSE [s EXCEPT !._transport = "None", !._cipher = NoCipher]

\* DeviceProtocolBase2.connection_lost, called by the event loop: the
\* transport is closed and forgotten; exc is raised to the loop.
connection_lost(s) ==
    IF s._transport = "None" THEN s ELSE [s EXCEPT !._transport = "None"]

\* ---------------------------------------------------------------- actions
\* The caller starts an operation.
Bind(key, cipher) ==
    /\ pc = "idle" /\ ~loop_closed
    /\ \E s \in bind(Called(Cur, "bind", cipher), key, cipher) : Install(s)

UpdateState ==
    /\ pc = "idle" /\ ~loop_closed
    /\ \E s \in update_state(Cur) : Install(s)

PushStateUpdate ==
    /\ pc = "idle" /\ ~loop_closed
    /\ \E s \in push_state_update(Cur) : Install(s)

\* The caller awaits send itself, with a message and a bootstrap cipher
\* (NoCipher for none).
Send(obj, cipher) ==
    /\ pc = "idle" /\ ~loop_closed
    /\ \E s \in send(Called(Cur, "send", NoneStr), obj, cipher, "raw_send") : Install(s)

\* Another task calls push_state_update while a push is suspended in its
\* auto-bind, after send has installed the trial cipher: the second call
\* finds a cipher, takes its snapshot, clears _dirty and writes its command
\* before it suspends; what it raises goes to its own caller.
SecondPush ==
    /\ op = "push_state_update" /\ pc \in {"bind_send", "bind_ready"}
    /\ ~loop_closed
    /\ _dirty # << >> /\ _cipher # NoCipher
    /\ \E s \in push_body(Cur) : Install([s EXCEPT !.pc = pc, !.result = result])

DeviceUpdateState ==
    /\ pc = "idle" /\ ~loop_closed
    /\ \E s \in device_update_state(Cur) : Install(s)

RequestVersion ==
    /\ pc = "idle" /\ ~loop_closed
    /\ \E s \in request_version(Cur) : Install(s)

DevicePushStateUpdate ==
    /\ pc = "idle" /\ ~loop_closed
    /\ \E s \in device_push_state_update(Cur) : Install(s)

\* The caller has the outcome of its operation; the operation's locals, and
\* what was observed of it, end here.
Resumed ==
    /\ pc = "done"
    /\ Install([Cur EXCEPT !.pc = "idle", !.op = "none", !.result = "none",
                           !.cipher_arg = NoneStr, !.trial = NoneStr,
                           !.property_batches = << >>, !.batch_i = 0,
                           !.sentLog = << >>, !.h_call = NoCall, !.h_timeouts = 0,
                           !.h_snap = NoSnap, !.h_got_resp = FALSE,
                           !.h_hid_unknown = FALSE,
                           !.h_temp = IF @ = "pushed" THEN "none" ELSE @])

\* A setter is called, by the caller between operations or by another task
\* while an operation is suspended.
SetProperty(name, value) ==
    /\ pc # "done"
    /\ LET s == set_property(Cur, name, value)
           changed == s._properties # _properties
       IN  Install([s EXCEPT !.h_set_in_flight =
                       IF (pc = "ps_send" /\ changed) \/ name \in DOMAIN @
                       THEN Update(@, name :> value) ELSE @,
                             !.h_written =
                       IF name \in Range(s._dirty)
                       THEN Update(@, name :> value) ELSE @])

\* A getter is called, between operations or while one is suspended.
GetProperty(name) ==
    /\ pc # "done"
    /\ Install([Cur EXCEPT !.h_ret = [name |-> name, value |-> get_property(Cur, name)]])

\* The handle is compared with another object, by == and by !=.
Compare(other) ==
    /\ pc # "done"
    /\ Install([Cur EXCEPT !.h_eq = [called |-> TRUE, other |-> other,
                                     eq |-> __eq__(Handle(Cur), other),
                                     ne |-> __ne__(Handle(Cur), other)]])

\* A message is built.
GeneratePayload(command, mac, data) ==
    /\ pc # "done"
    /\ Install([Cur EXCEPT !.h_msg =
                   [ builder |-> "_generate_payload", command |-> command, mac |-> mac,
                     data |-> data, out |-> _generate_payload(command, mac, data),
                     base |-> NoData ]])

CreateStatusMessage(mac, cols) ==
    /\ pc # "done"
    /\ Install([Cur EXCEPT !.h_msg =
                   [ builder |-> "create_status_message", command |-> "status", mac |-> mac,
                     data |-> [cols |-> cols], out |-> create_status_message(mac, cols),
                     base |-> DeviceProtocol2_create_status_message(mac, cols) ]])

\* A cipher object of variant v with the given key encrypts a property map;
\* one of the same variant, with the same key or another, decrypts the pack.
Encrypt(v, key, x) ==
    /\ pc # "done"
    /\ LET e == IF v = "V1" THEN CipherV1_encrypt(key, x) ELSE CipherV2_encrypt(key, x)
       IN  Install([Cur EXCEPT !.h_crypt =
                       [ at |-> "encrypted", v |-> v, key |-> key, x |-> x, pack |-> e.pack,
                         tag |-> e.tag, with |-> "None",
                         dec |-> [raised |-> e.raised, value |-> EmptyDict] ]])

Decrypt(key) ==
    /\ pc # "done"
    /\ h_crypt.at = "encrypted" /\ h_crypt.dec.raised = "none"
    /\ Install([Cur EXCEPT !.h_crypt.at = "decrypted",
                           !.h_crypt.with = key,
                           !.h_crypt.dec = IF h_crypt.v = "V1"
                                           THEN CipherV1_decrypt(key, h_crypt.pack)
                                           ELSE CipherV2_decrypt(key, h_crypt.pack)])

\* The setter target_temperature is called.
SetTargetTemperature(value) ==
    /\ pc # "done"
    /\ LET s == set_target_temperature(Cur, value)
       IN  Install([s EXCEPT !.h_temp =
                       IF Get(_properties, "TemUn") = 1 /\ s._properties # _properties
                       THEN "set" ELSE @])

\* A callback is registered or removed.
Registered == Len(_handlers["bindok"]) + Len(_handlers["dat"]) + Len(_handlers["res"])

AddHandler(event_name, callback) ==
    /\ pc # "done"
    /\ Registered < MaxHandlers
    /\ Install(add_handler(Cur, event_name, callback))

RemoveHandler(event_name, callback) ==
    /\ pc # "done"
    /\ callback \in Range(_handlers[event_name])
    /\ Install(remove_handler(Cur, event_name, callback))

\* close(), by the caller between operations or by another task while an
\* operation is suspended.
Close ==
    /\ pc # "done"
    /\ Install(close(Cur))

\* packet_received hands a Device the columns of a dat or res packet.
DeviceStateUpdate(kwargs) ==
    /\ pc # "done"
    /\ Install(device_handle_state_update(Cur, kwargs))

\* The transport reports that the connection is lost.
ConnectionLost ==
    /\ pc # "done" /\ ~loop_closed
    /\ _transport # "None"
    /\ Install(connection_lost(Cur))

\* The caller closes the event loop the handle was created on: no coroutine
\* and no callback of the transport runs from then on, and the datagrams on
\* their way are never read.
LoopClose ==
    /\ pc = "idle" /\ ~loop_closed
    /\ Install([Cur EXCEPT !.loop_closed = TRUE, !.inbox = {}])

\* loop.create_datagram_endpoint returns: connection_made has stored the
\* transport, and bind goes on to its first trial.
BindEndpointDone ==
    /\ pc = "bind_endpoint"
    /\ \E s \in bind_trials([Cur EXCEPT !._transport = "open"]) : Install(s)

\* send's wait on the drained gate ends: the gate is set, or the timeout
\* passes with the gate cleared.
BindSendDone ==
    /\ pc = "bind_send" /\ _drained
    /\ Install([Cur EXCEPT !.pc = "bind_ready"])

BindSendTimeout ==
    /\ pc = "bind_send" /\ ~_drained
    /\ \E s \in bind_timeout(Cur) : Install(s)

\* __bind_internal's wait on the ready gate ends.
BindReadyDone ==
    /\ pc = "bind_ready" /\ _ready
    /\ \E s \in bind_done(Cur) : Install(s)

BindReadyTimeout ==
    /\ pc = "bind_ready" /\ ~_ready
    /\ \E s \in bind_timeout(Cur) : Install(s)

UpdateSendDone ==
    /\ pc = "us_send" /\ _drained
    /\ \E s \in update_loop(Cur) : Install(s)

\* UpdateSendTimeout without the except clause for asyncio.TimeoutError.
UpdateSendTimeout_unmapped ==
    /\ pc = "us_send" /\ ~_drained
    /\ Install(Raise(Cur, "TimeoutError"))

UpdateSendTimeout ==
    /\ pc = "us_send" /\ ~_drained
    /\ Install(Raise(Cur, "DeviceTimeoutError"))

DeviceUpdateSendDone ==
    /\ pc = "dus_send" /\ _drained
    /\ Install(Return(Cur))

DeviceUpdateSendTimeout ==
    /\ pc = "dus_send" /\ ~_drained
    /\ Install(Raise(Cur, "DeviceTimeoutError"))

PushSendDone ==
    /\ pc = "ps_send" /\ _drained
    /\ Install(Return(Cur))

PushSendTimeout ==
    /\ pc = "ps_send" /\ ~_drained
    /\ Install(Raise(Cur, "DeviceTimeoutError"))

\* SendDone that does not look at the drained gate.
SendDone_ignores_gate ==
    /\ pc = "raw_send"
    /\ Install(Return(Cur))

SendDone ==
    /\ pc = "raw_send" /\ _drained
    /\ Install(Return(Cur))

SendTimeout ==
    /\ pc = "raw_send" /\ ~_drained
    /\ Install(Raise(Cur, "TimeoutError"))

VersionSendDone ==
    /\ pc = "rv_send" /\ _drained
    /\ Install(Return(Cur))

VersionSendTimeout ==
    /\ pc = "rv_send" /\ ~_drained
    /\ Install(Raise(Cur, "DeviceTimeoutError"))

\* The transport's flow control.
PauseWriting ==
    /\ pc \in {"bind_send", "us_send", "ps_send", "rv_send", "raw_send", "dus_send"}
    /\ _drained
    /\ Install([Cur EXCEPT !._drained = FALSE])

ResumeWriting ==
    /\ pc # "done" /\ ~loop_closed
    /\ ~_drained
    /\ Install([Cur EXCEPT !._drained = TRUE])

\* A datagram arrives; one is lost; one arrives from elsewhere.
DatagramReceived(d) ==
    /\ pc # "done" /\ ~loop_closed
    /\ LET s == datagram_received([Cur EXCEPT !.inbox = @ \ {d}], d)
       IN  Install([s EXCEPT !.h_got_resp =
                       @ \/ ( /\ s.batch_i >= 1
                              /\ d.raw = "json" /\ d.pack.t = "dat"
                              /\ (d.enc = Plain \/ Decrypts(_cipher, d))
                              /\ d.pack.keys = s.property_batches[s.batch_i] )])

LoseDatagram(d) ==
    /\ pc # "done"
    /\ Install([Cur EXCEPT !.inbox = @ \ {d}])

\* datagram_received has returned to the transport.
DatagramHandled ==
    /\ h_disp # NoDisp
    /\ h_disp' = NoDisp
    /\ UNCHANGED << device_info, _transport, _cipher, _drained, _ready, _properties,
                    _dirty, hid, version, pc, op, cipher_arg, trial, property_batches,
                    batch_i, result, device, inbox, sentLog, h_call, h_timeouts,
                    h_snap, h_set_in_flight, h_got_resp, h_hid_unknown, _handlers,
                    loop_closed, h_temp, h_ret, h_eq, h_msg, h_crypt, h_written,
                    check_version >>

\* What the network and the event loop do to a handle, whatever it runs.
Events ==
    \/ Resumed
    \/ BindEndpointDone
    \/ BindSendDone
    \/ BindSendTimeout
    \/ BindReadyDone
    \/ BindReadyTimeout
    \/ PauseWriting
    \/ ResumeWriting
    \/ \E d \in inbox : DatagramReceived(d)
    \/ \E d \in inbox : LoseDatagram(d)
    \/ DatagramHandled

\* A caller that binds, by negotiation or with a key it kept, and closes.
NextBind ==
    \/ \E c \in {NoneStr, "V1", "V2"} : Bind(NoneStr, c)
    \/ \E c \in {NoneStr, "V1", "V2"} : Bind(DeviceKey, c)
    \/ Close
    \/ Events
    \/ \E d \in Foreign : DatagramReceived(d)

\* A caller that binds, closes the handle any number of times, and closes
\* the event loop.
NextClose ==
    \/ \E c \in {NoneStr, "V1", "V2"} : Bind(NoneStr, c)
    \/ Close
    \/ LoopClose
    \/ Events

\* A caller that reads properties, set by itself or reported by the unit,
\* on a handle it binds and polls.
Getters == SetKeys \cup {"Mod"}

NextGet ==
    \/ \E name \in Getters : GetProperty(name)
    \/ \E name \in SetKeys, value \in Vals : SetProperty(name, value)
    \/ \E d \in Foreign : DatagramReceived(d)
    \/ Bind(NoneStr, "V1")
    \/ Close
    \/ Events

\* A caller that compares a handle, in the states that setters, a kept key
\* and inbound packets bring it to, with other objects.
NextEq ==
    \/ \E other \in Others : Compare(other)
    \/ SetProperty("Pow", 1)
    \/ \E d \in Foreign : DatagramReceived(d)
    \/ Bind(DeviceKey, "V1")
    \/ Resumed
    \/ DatagramHandled

\* A caller that builds messages, for two devices.
NextMsg ==
    \/ \E command \in CommandKinds, mac \in Macs, data \in Payloads :
          GeneratePayload(command, mac, data)
    \/ \E mac \in Macs, cols \in {<< >>, << "hid" >>, << "Pow", "Mod" >>} :
          CreateStatusMessage(mac, cols)

\* Cipher objects of both variants, with the session key and with another
\* key, encrypting property maps and decrypting the packs.
NextCipher ==
    \/ \E v \in {"V1", "V2"}, key \in {DeviceKey, ForeignKey}, x \in PropertyMaps :
          Encrypt(v, key, x)
    \/ \E key \in {DeviceKey, ForeignKey} : Decrypt(key)

\* A caller of a Device that chooses the unit, sets target temperatures and
\* pushes them.
NextTemp ==
    \/ SetProperty("TemUn", 1)
    \/ \E value \in Temps : SetTargetTemperature(value)
    \/ DevicePushStateUpdate
    \/ PushSendDone
    \/ PushSendTimeout
    \/ Events

\* A caller that sets properties and pushes them, on a session it lets the
\* push negotiate or installs from a key it kept.
NextPush ==
    \/ \E name \in SetKeys, value \in Vals : SetProperty(name, value)
    \/ PushStateUpdate
    \/ PushSendDone
    \/ PushSendTimeout
    \/ \E c \in {NoneStr, "V1", "V2"} : Bind(DeviceKey, c)
    \/ Events

\* A caller that polls the unit, on a session it lets the poll negotiate or
\* installs from a key it kept, and closes.
NextUpdate ==
    \/ UpdateState
    \/ UpdateSendDone
    \/ UpdateSendTimeout
    \/ \E c \in {NoneStr, "V1", "V2"} : Bind(DeviceKey, c)
    \/ Close
    \/ Events

\* Callers that poll the unit, one through an AwhpDevice and one through a
\* Device.
NextPoll ==
    \/ UpdateState
    \/ UpdateSendDone
    \/ UpdateSendTimeout
    \/ DeviceUpdateState
    \/ DeviceUpdateSendDone
    \/ DeviceUpdateSendTimeout
    \/ Events

\* A handle that is sent state updates with firmware ids of every form.
NextHid ==
    \/ \E d \in HidUpdates : DatagramReceived(d)
    \/ SetProperty("Pow", 1)
    \/ Bind(DeviceKey, "V1")
    \/ Resumed
    \/ DatagramHandled

\* A Device that is told of its state, between the calls of a caller that
\* sets the unit and target temperatures.
NextSensor ==
    \/ \E kwargs \in SensorUpdates : DeviceStateUpdate(kwargs)
    \/ SetProperty("TemUn", 1)
    \/ \E value \in Temps : SetTargetTemperature(value)

\* Two tasks that push the changes of one handle.
NextRace ==
    \/ SetProperty("Pow", 1)
    \/ PushStateUpdate
    \/ SecondPush
    \/ PushSendDone
    \/ PushSendTimeout
    \/ Events

\* A caller that uses every public operation of the synchroniser on one
\* handle.
NextSync ==
    \/ UpdateState
    \/ UpdateSendDone
    \/ UpdateSendTimeout
    \/ RequestVersion
    \/ VersionSendDone
    \/ VersionSendTimeout
    \/ SetProperty("Pow", 1)
    \/ PushStateUpdate
    \/ PushSendDone
    \/ PushSendTimeout
    \/ \E c \in {NoneStr, "V1", "V2"} : Bind(NoneStr, c)
    \/ Bind(DeviceKey, "V1")
    \/ Close
    \/ Events

\* The operations and events that meet a handle, bound or not: polls and
\* pushes, binds by negotiation and with a kept key, close(), the loss of
\* the connection, and a bind acknowledgement from elsewhere.
NextBound ==
    \/ UpdateState
    \/ UpdateSendDone
    \/ UpdateSendTimeout
    \/ SetProperty("Pow", 1)
    \/ PushStateUpdate
    \/ PushSendDone
    \/ PushSendTimeout
    \/ \E c \in {NoneStr, "V1"} : Bind(NoneStr, c)
    \/ Bind(DeviceKey, "V1")
    \/ Close
    \/ ConnectionLost
    \/ Events
    \/ \E d \in Foreign : d.pack.t = "bindok" /\ DatagramReceived(d)

\* A caller that awaits send itself, on a handle it binds and closes.
Messages == {create_bind_message(MAC), create_status_message(MAC, << "Pow" >>)}
ScanMessage == _generate_payload("scan", MAC, NoData)

NextSend ==
    \/ \E obj \in Messages, c \in {NoCipher, CipherV1, CipherV2} : Send(obj, c)
    \/ Send(ScanMessage, NoCipher)
    \/ SendDone
    \/ SendTimeout
    \/ Bind(NoneStr, NoneStr)
    \/ Bind(DeviceKey, "V1")
    \/ Close
    \/ Events

\* A bound or unbound handle with registered callbacks, given datagrams of
\* every shape.
Inbound == Foreign \cup Malformed \cup Unknown \cup Updates

NextRecv ==
    \/ \E d \in Inbound : DatagramReceived(d)
    \/ \E r \in Response, cb \in Callbacks : AddHandler(r, cb)
    \/ \E r \in Response, cb \in Callbacks : RemoveHandler(r, cb)
    \/ SetProperty("Pow", 1)
    \/ Bind(DeviceKey, "V1")
    \/ Resumed
    \/ DatagramHandled

\* A caller that registers and removes callbacks, one of which raises, on a
\* handle given packets of each known type, unknown packets and malformed
\* ones.
Calls ==
    {d \in Foreign \cup Updates : d.enc = Plain /\ d.pack.vals \in {<< >>, << 1 >>}}
    \cup Unknown
    \cup {d \in Malformed : d.raw \in {"nonjson", "badpack", "badcols", "json"}}

NextCall ==
    \/ \E d \in Calls : DatagramReceived(d)
    \/ \E r \in Response, cb \in Callbacks \cup Raising : AddHandler(r, cb)
    \/ \E r \in Response, cb \in Callbacks \cup Raising : RemoveHandler(r, cb)
    \/ Bind(DeviceKey, "V1")
    \/ Resumed
    \/ DatagramHandled

\* Every caller.
Next ==
    \/ NextBind
    \/ NextPush
    \/ NextUpdate
    \/ NextSync
    \/ NextSend
    \/ NextRecv
    \/ NextCall
    \/ NextClose
    \/ NextTemp
    \/ NextGet
    \/ NextEq
    \/ NextMsg
    \/ NextCipher
    \/ NextPoll
    \/ NextRace
    \/ NextHid
    \/ NextBound
    \/ NextSensor

Spec == Init /\ [][Next]_vars
SpecBind == Init /\ [][NextBind]_vars
SpecPush == Init /\ [][NextPush]_vars
SpecUpdate == Init /\ [][NextUpdate]_vars
SpecSync == Init /\ [][NextSync]_vars
SpecSend == Init /\ [][NextSend]_vars
SpecRecv == Init /\ [][NextRecv]_vars
SpecCall == Init /\ [][NextCall]_vars
SpecClose == Init /\ [][NextClose]_vars
SpecTemp == Init /\ [][NextTemp]_vars
SpecGet == Init /\ [][NextGet]_vars
SpecEq == Init /\ [][NextEq]_vars
SpecMsg == Init /\ [][NextMsg]_vars
SpecCipher == Init /\ [][NextCipher]_vars
SpecPoll == Init /\ [][NextPoll]_vars
SpecRace == Init /\ [][NextRace]_vars
SpecHid == Init /\ [][NextHid]_vars
SpecBound == Init /\ [][NextBound]_vars
SpecSensor == Init /\ [][NextSensor]_vars

\* ================================================================= claims
NoDuplicates(seq) == \A i, j \in 1..Len(seq) : seq[i] = seq[j] => i = j
Commands(log) == SelectSeq(log, LAMBDA m : m.t = "cmd")
PushEnded(r) == pc = "done" /\ op = "push_state_update" /\ result = r

\* C1: a push that fails with DeviceTimeoutError while sending its command
\* still has, in the Dirty Set, every key that was dirty when it was called.
C1_FailedPushKeepsDirty ==
    (PushEnded("DeviceTimeoutError") /\ Commands(sentLog) # << >>)
        => \A k \in Range(h_call.dirty) : k \in Range(_dirty)

\* C2: a key set to a new value while a push is suspended in send is dirty
\* when that push ends, and the next push that sends a command sends the key
\* with the value last set.
C2_ReentrantSetIsPushed ==
    [][ /\ (pc = "ps_send" /\ pc' = "done")
            => \A k \in DOMAIN h_set_in_flight : k \in Range(_dirty')
        /\ (pc # "ps_send" /\ pc' = "ps_send")
            => \A k \in DOMAIN h_set_in_flight :
                 \E i \in 1..Len(Last(sentLog').keys) :
                    /\ Last(sentLog').keys[i] = k
                    /\ Last(sentLog').vals[i] = h_set_in_flight[k] ]_vars

\* C3: set_property(p, v) leaves the Property Map and the Dirty Set alone
\* when v is the current value of p, and otherwise stores v and appends p's
\* key unless it is there; the Dirty Set never holds a key twice.
C3_SetPost(name, value) ==
    IF Get(_properties, name) = value
    THEN UNCHANGED << _properties, _dirty >>
    ELSE /\ DOMAIN _properties' = DOMAIN _properties \cup {name}
         /\ \A k \in DOMAIN _properties' :
               _properties'[k] = IF k = name THEN value ELSE _properties[k]
         /\ _dirty' = IF \E i \in 1..Len(_dirty) : _dirty[i] = name
                      THEN _dirty ELSE _dirty \o << name >>

C3_SetPropertyDirtiesOnce ==
    /\ [](NoDuplicates(_dirty))
    /\ [][ \A name \in SetKeys, value \in Vals :
              SetProperty(name, value) => C3_SetPost(name, value) ]_vars

C3_Witness ==
    /\ Len(_dirty) = 2
    /\ Get(_properties, "Pow") = 1
    /\ Get(_properties, "FastHtWter") = 0

C5_EmptyPushIsNoOp ==
    [][ (pc = "idle" /\ op' = "push_state_update" /\ _dirty = << >>)
          => /\ pc' = "done" /\ result' = "ok"
             /\ sentLog' = << >>
             /\ UNCHANGED << _properties, _dirty, _cipher, _transport, _drained,
                             _ready, inbox, hid, version >> ]_vars

C5_Witness ==
    /\ PushEnded("ok")
    /\ ~h_snap.taken
    /\ _cipher = NoCipher
    /\ _transport = "None"

StatusRequests(log) == SelectSeq(log, LAMBDA m : m.t = "status")
UpdateEnded(r) == pc = "done" /\ op = "update_state" /\ result = r

RECURSIVE Flatten(_)
Flatten(seqs) == IF seqs = << >> THEN << >> ELSE Head(seqs) \o Flatten(Tail(seqs))

\* C6: within one update_state, the request for the next batch is written
\* only after the unit's answer to the batch before it was dispatched (a
\* wait that times out ends the operation).
C6_BatchesAwaitTheirResponse ==
    [][ (batch_i >= 1 /\ batch_i' = batch_i + 1) => h_got_resp ]_vars

\* C7: an update_state that returns normally has sent ceil(N / 23) status
\* requests, N being the number of AwhpProps keys plus one for "hid" when the
\* firmware id was unknown; no key is requested twice and together the
\* requests list exactly those N keys.
C7_BatchCompleteness ==
    UpdateEnded("ok")
        => LET reqs == StatusRequests(sentLog)
               cols == Flatten([i \in 1..Len(reqs) |-> reqs[i].keys])
               wanted == Range(AwhpProps) \cup (IF h_hid_unknown THEN {"hid"} ELSE {})
               N == Cardinality(wanted)
           IN  /\ Len(reqs) * 23 >= N
               /\ (Len(reqs) - 1) * 23 < N
               /\ NoDuplicates(cols)
               /\ Range(cols) = wanted

C7_Witness ==
    /\ UpdateEnded("ok")
    /\ h_hid_unknown
    /\ Len(StatusRequests(sentLog)) = 2
    /\ Len(StatusRequests(sentLog)[2].keys) = 23

BindRequests(log) == SelectSeq(log, LAMBDA m : m.t = "bind")
Variants(log) == [i \in 1..Len(log) |-> log[i].enc.v]
IsPrefix(a, b) == Len(a) <= Len(b) /\ \A i \in 1..Len(a) : a[i] = b[i]
Candidates == IF cipher_arg = NoneStr THEN << "V1", "V2" >> ELSE << cipher_arg >>

\* C8: the bind requests of one bind() follow the candidate list, V1 then V2
\* when no cipher is given and the given cipher alone otherwise, each under
\* its variant's default key; the second request is written only after the
\* first trial timed out; a timeout is surfaced only after the last
\* candidate was tried, and when every candidate timed out the error is
\* DeviceTimeoutError.
C8_BindFallbackOrder ==
    LET reqs == BindRequests(sentLog)
    IN  /\ IsPrefix(Variants(reqs), Candidates)
        /\ \A i \in 1..Len(reqs) : reqs[i].enc = NewCipher(reqs[i].enc.v)
        /\ h_timeouts >= Len(reqs) - 1
        /\ h_timeouts <= Len(reqs)
        /\ (pc = "done" /\ result = "DeviceTimeoutError")
              => Variants(reqs) = Candidates
        /\ (pc = "done" /\ reqs # << >> /\ h_timeouts = Len(Candidates))
              => result = "DeviceTimeoutError"

C8_Witness ==
    /\ pc = "done" /\ op = "bind" /\ result = "DeviceTimeoutError"
    /\ Variants(BindRequests(sentLog)) = << "V1", "V2" >>
    /\ h_timeouts = 2

\* C9: the dispatch of a bindok signals the ready gate and, in the same
\* step, makes the key it carries the key of the cipher then installed (the
\* one under trial); a negotiated bind() that returns normally leaves that
\* cipher installed.
C9_BindokInstallsKey ==
    /\ []( (pc = "done" /\ op = "bind" /\ result = "ok" /\ BindRequests(sentLog) # << >>)
             => (_cipher # NoCipher /\ _cipher.v = trial) )
    /\ [][ \A d \in inbox \cup Foreign :
              ( /\ DatagramReceived(d)
                /\ d.pack.t = "bindok"
                /\ (d.enc = Plain \/ Decrypts(_cipher, d)) )
              => /\ _ready'
                 /\ _cipher' = IF _cipher = NoCipher THEN NoCipher
                               ELSE [v |-> _cipher.v, key |-> d.pack.key] ]_vars

C9_Witness ==
    /\ pc = "done" /\ op = "bind" /\ result = "ok"
    /\ Variants(BindRequests(sentLog)) = << "V1", "V2" >>
    /\ _ready
    /\ _cipher = [v |-> "V2", key |-> DeviceKey]

\* C10: a negotiated bind() on a handle without a cipher that fails with
\* DeviceTimeoutError leaves the handle without a cipher.
C10_BindTimeoutLeavesUnbound ==
    ( /\ pc = "done" /\ op = "bind" /\ result = "DeviceTimeoutError"
      /\ h_call.cipher = NoCipher )
        => _cipher = NoCipher

\* C11: bind(key, cipher) makes the given cipher, with the given key, the
\* session cipher and returns at once, with or without a DeviceInfo; no
\* transport is opened and nothing is sent.  bind(key) without a cipher
\* raises ValueError and leaves the session cipher as it was.
C11_DirectKeyInstall ==
    [][ \A c \in {NoneStr, "V1", "V2"} :
          Bind(DeviceKey, c)
            => /\ pc' = "done"
               /\ sentLog' = << >>
               /\ UNCHANGED << _transport, inbox, _ready, _drained, _properties, _dirty >>
               /\ IF c = NoneStr
                  THEN result' = "ValueError" /\ _cipher' = _cipher
                  ELSE result' = "ok" /\ _cipher' = [v |-> c, key |-> DeviceKey] ]_vars

C11_Witness ==
    /\ pc = "done" /\ op = "bind" /\ result = "ok"
    /\ ~device_info
    /\ _transport = "None"
    /\ _cipher = [v |-> "V2", key |-> DeviceKey]

Polls(log) == SelectSeq(log, LAMBDA m : m.t \in {"status", "cmd"})
AutoBinds == op = "update_state" \/ (op = "push_state_update" /\ h_call.dirty # << >>)
InBind == pc \in {"bind_endpoint", "bind_send", "bind_ready"}

\* C12: update_state, and push_state_update with a non-empty Dirty Set, run
\* bind() exactly when no cipher is installed at the call.  With a cipher
\* installed no bind request is written; without one, every status or
\* command message is written after the bind requests and after the bind
\* acknowledgement was received.
C12_AutoBindIffNoCipher ==
    AutoBinds
      => /\ h_call.cipher # NoCipher
              => (~InBind /\ trial = NoneStr /\ BindRequests(sentLog) = << >>)
         /\ h_call.cipher = NoCipher
              => /\ \/ InBind
                    \/ trial # NoneStr
                    \/ pc = "done" /\ result = "DeviceNotBoundError" /\ sentLog = << >>
                 /\ \A i \in 1..Len(sentLog) :
                       sentLog[i].t \in {"status", "cmd"}
                         => /\ _ready /\ _cipher # NoCipher
                            /\ sentLog[1].t = "bind"
                            /\ \A j \in i..Len(sentLog) : sentLog[j].t # "bind"

C12_Witness ==
    /\ UpdateEnded("ok")
    /\ h_call.cipher = NoCipher
    /\ Len(BindRequests(sentLog)) = 2
    /\ Len(StatusRequests(sentLog)) = 2
    /\ sentLog[3].t = "status"

\* C13: without a DeviceInfo a negotiated bind raises DeviceNotBoundError at
\* once, before a transport is opened or anything is sent; so do
\* update_state and a push_state_update with a non-empty Dirty Set, on a
\* handle that was never bound and on one that holds a cipher.
C13_NoDeviceInfoNoTraffic ==
    /\ []( ~device_info
             => /\ _transport = "None" /\ sentLog = << >> /\ inbox = {}
                /\ pc \in {"idle", "done"}
                /\ (pc = "done" /\ AutoBinds) => result = "DeviceNotBoundError" )
    /\ [][ \A c \in {NoneStr, "V1", "V2"} :
              (Bind(NoneStr, c) /\ ~device_info)
                => /\ pc' = "done" /\ result' = "DeviceNotBoundError"
                   /\ UNCHANGED << _transport, _cipher, inbox, sentLog >> ]_vars

C13_Witness ==
    /\ ~device_info
    /\ UpdateEnded("DeviceNotBoundError")
    /\ h_call.cipher = NoCipher
    /\ _transport = "None"

\* C14: a timeout of a wait inside bind, request_version, update_state or
\* push_state_update that ends the operation ends it with
\* DeviceTimeoutError, never with the timeout itself (a timeout of bind's
\* first trial starts the second instead); an exception of
\* another kind raised by the send of a batch ends update_state with that
\* same exception, the batches after it unsent.
C14_ErrorMapping ==
    /\ []( result # "TimeoutError" )
    /\ []( UpdateEnded("RuntimeError")
             => /\ _transport = "None"
                /\ Len(StatusRequests(sentLog)) = IF batch_i = 0 THEN 0 ELSE batch_i - 1 )
    /\ [][ ( /\ \/ BindSendTimeout \/ BindReadyTimeout \/ UpdateSendTimeout
                \/ PushSendTimeout \/ VersionSendTimeout
             /\ pc' = "done" /\ trial' = trial )
           => result' = "DeviceTimeoutError" ]_vars

C14_Witness ==
    /\ UpdateEnded("RuntimeError")
    /\ batch_i = 2
    /\ Len(StatusRequests(sentLog)) = 1

\* C15: every bind, update_state and push_state_update ends normally or with
\* ValueError, DeviceNotBoundError or DeviceTimeoutError.
C15_OnlyTypedErrors ==
    (pc = "done" /\ op \in {"bind", "update_state", "push_state_update"})
        => result \in {"ok", "ValueError", "DeviceNotBoundError", "DeviceTimeoutError"}

SendPost(obj, c) ==
    IF (obj.i = 1 /\ c = NoCipher) \/ (obj.i # 1 /\ _cipher = NoCipher)
    THEN /\ pc' = "done" /\ result' = "ValueError"
         /\ sentLog' = << >>
         /\ UNCHANGED << _cipher, inbox, _transport >>
    ELSE obj.i = 1
           => /\ _cipher' = c
              /\ sentLog' # << >> => (Len(sentLog') = 1 /\ sentLog'[1].enc = c)

\* C16: send raises ValueError for a key-exchange message (i = 1) given no
\* bootstrap cipher and for a session message (i # 1) when no cipher is
\* installed; nothing is written and the installed cipher stays.  A
\* key-exchange message given a bootstrap cipher installs that cipher, and
\* the pack written is encrypted with it.
C16_SendCipherRules ==
    [][ \A obj \in Messages, c \in {NoCipher, CipherV1, CipherV2} :
          Send(obj, c) => SendPost(obj, c) ]_vars

C16_Witness ==
    /\ op = "send" /\ pc = "raw_send"
    /\ h_call.cipher = [v |-> "V1", key |-> DeviceKey]
    /\ _cipher = CipherV2
    /\ sentLog = << [t |-> "bind", enc |-> CipherV2, keys |-> << >>, vals |-> << >>] >>

HandleVars ==
    << _transport, _cipher, _drained, _ready, _properties, _dirty, hid, version,
       _handlers >>

\* C18: no exception leaves datagram_received, whatever the datagram.  A
\* datagram without bytes, or whose bytes are not a JSON object, is dropped
\* before packet_received; these and packs that fail to decrypt, lack a
\* field or have ill-typed columns change nothing on the handle and invoke
\* no callback; a well-formed status datagram is merged in every state,
\* whatever was received before it.
C18_DatagramErrorsContained ==
    /\ [](h_disp.exc = "none")
    /\ [][ \A d \in Malformed :
              (DatagramReceived(d) /\ ~Decrypts(_cipher, d))
                => /\ UNCHANGED HandleVars
                   /\ UNCHANGED << pc, result >>
                   /\ h_disp'.invoked = << >>
                   /\ d.raw \in {"empty", "nonjson", "nonobject"} => ~h_disp'.received ]_vars
    /\ [][ \A d \in Foreign :
              (DatagramReceived(d) /\ d.pack.t = "dat")
                => /\ h_disp'.received
                   /\ Get(_properties', "Pow") = d.pack.vals[1] ]_vars

C18_Witness ==
    /\ h_disp.raw = "badcols"
    /\ h_disp.received
    /\ h_disp.raised = "TypeError"
    /\ h_disp.exc = "none"
    /\ _cipher # NoCipher
    /\ Get(_properties, "Pow") = 1

StateUpdate(d) ==
    /\ d.raw = "json"
    /\ d.pack.t \in {"dat", "res"}
    /\ d.enc = Plain \/ Decrypts(_cipher, d)

MergePost(d) ==
    LET keys == d.pack.keys
        vals == d.pack.vals
        n == IF Len(keys) < Len(vals) THEN Len(keys) ELSE Len(vals)
        LastOf(k) == CHOOSE i \in 1..n : keys[i] = k /\ \A j \in (i + 1)..n : keys[j] # k
        ks == {keys[i] : i \in 1..n} \ {"hid"}
    IN  /\ DOMAIN _properties' = DOMAIN _properties \cup ks
        /\ \A k \in ks : _properties'[k] = vals[LastOf(k)]
        /\ \A k \in DOMAIN _properties \ ks : _properties'[k] = _properties[k]
        /\ UNCHANGED _dirty

\* C19: the dispatch of a dat or res packet pairs its two arrays position
\* by position (up to the shorter; a key listed twice keeps its last value)
\* and writes every pair but hid into the Property Map, over the value that
\* was there; keys the packet does not list keep their values.
C19_StateUpdateMerges ==
    [][ \A d \in Inbound :
          (DatagramReceived(d) /\ StateUpdate(d)) => MergePost(d) ]_vars

C19_Witness ==
    /\ h_disp.resp = "dat"
    /\ h_disp.raised = "none"
    /\ Get(_properties, "Pow") = 0
    /\ Get(_properties, "FastHtWter") = NoneVal
    /\ _dirty = << "Pow" >>

\* C20: a packet of no known response type, or without a pack, raises
\* nothing and goes to handle_unknown_packet once; no callback is invoked
\* and the Property Map, the Dirty Set, the cipher with its key and the
\* ready gate are as before.
C20_UnknownPacketIsNoOp ==
    [][ \A d \in Unknown :
          DatagramReceived(d)
            => /\ h_disp'.received
               /\ h_disp'.unknown = 1
               /\ h_disp'.raised = "none" /\ h_disp'.exc = "none"
               /\ h_disp'.invoked = << >>
               /\ UNCHANGED HandleVars ]_vars

C20_Witness ==
    /\ h_disp.resp = "unknown"
    /\ h_disp.unknown = 1
    /\ _handlers["dat"] # << >>
    /\ _cipher # NoCipher
    /\ _ready
    /\ _dirty # << >>

Extracts(d) ==
    /\ d.raw = "json"
    /\ d.pack.t \in Response
    /\ d.enc = Plain \/ Decrypts(_cipher, d)

UpToRaise(cbs) ==
    LET stops == {i \in 1..Len(cbs) : cbs[i] \in Raising}
    IN  IF stops = {} THEN cbs
        ELSE SubSeq(cbs, 1, CHOOSE i \in stops : \A j \in stops : i <= j)

RemovedOne(before, after, cb) ==
    \E i \in 1..Len(before) :
        /\ before[i] = cb
        /\ \A j \in 1..(i - 1) : before[j] # cb
        /\ after = [k \in 1..(Len(before) - 1) |-> IF k < i THEN before[k] ELSE before[k + 1]]

C22_CloseLeavesNoTransport ==
    [][ Close => _transport' = "None" ]_vars

\* C23: when target_temperature has stored a Fahrenheit value (TemUn = 1),
\* the command of the next push that sends one lists both SetTem and TemRec.
C23_TemperatureCompanions ==
    (h_temp = "pushed" /\ Commands(sentLog) # << >>)
        => {"SetTem", "TemRec"} \subseteq Range(Commands(sentLog)[1].keys)

\* C24: get_property returns the value the Property Map holds under the
\* key, None for a key never populated, and changes nothing: the Property
\* Map, the Dirty Set, the cipher, the transport, the gates, the callbacks
\* and the caller's coroutine are as before and nothing is written.
C24_GetIsPureLookup ==
    [][ \A name \in Getters :
          GetProperty(name)
            => /\ h_ret'.name = name
               /\ h_ret'.value = IF name \in DOMAIN _properties
                                 THEN _properties[name] ELSE NoneVal
               /\ UNCHANGED << _properties, _dirty, _cipher, _transport, _drained,
                               _ready, _handlers, hid, version, device_info, pc, op,
                               result, sentLog, inbox >> ]_vars

C24_Witness ==
    /\ h_ret = [name |-> "Pow", value |-> 0]
    /\ _dirty = << "FastHtWter" >>
    /\ pc = "bind_ready"
    /\ _transport = "open"

EqualHandles(o) ==
    /\ o.is_device
    /\ o.device_info = (IF device_info THEN "A" ELSE "None")
    /\ (_cipher = NoCipher) <=> (o._cipher = NoCipher)
    /\ _dirty = << >> /\ o._dirty = << >>
    /\ (_cipher # NoCipher /\ o._cipher # NoCipher) => _cipher.key = o._cipher.key
    /\ DOMAIN _properties = DOMAIN o._properties
    /\ \A k \in DOMAIN _properties : _properties[k] = o._properties[k]

\* C25: a handle compares equal to another object exactly when that object
\* is a handle with the same DeviceInfo, both hold a cipher or neither does,
\* both Dirty Sets are empty, the keys match when both hold a cipher, and
\* the Property Maps are equal; != gives the negation; comparing changes
\* nothing.
C25_HandleEquality ==
    [][ \A o \in Others :
          (o = h_eq'.other /\ Compare(o))
            => /\ h_eq'.eq <=> EqualHandles(o)
               /\ h_eq'.ne <=> ~h_eq'.eq
               /\ UNCHANGED << _properties, _dirty, _cipher, device_info >> ]_vars

C25_Witness ==
    /\ h_eq.called /\ h_eq.eq
    /\ _cipher = [v |-> "V1", key |-> DeviceKey]
    /\ h_eq.other._cipher = [v |-> "V2", key |-> DeviceKey]
    /\ Get(_properties, "Pow") = 0

EnvelopeOf(out, command, mac, data) ==
    /\ out.cid = "app" /\ out.uid = 0 /\ out.tcid = mac
    /\ out.i = (IF command \in {"bind", "scan"} THEN 1 ELSE 0)
    /\ IF data = NoData
       THEN out.t = command /\ DOMAIN out = {"cid", "i", "t", "uid", "tcid"}
       ELSE /\ out.t = "pack"
            /\ DOMAIN out = {"cid", "i", "t", "uid", "tcid", "pack"}
            /\ DOMAIN out.pack = {"t", "mac"} \cup DOMAIN data
            /\ out.pack.t = command /\ out.pack.mac = mac
            /\ \A k \in DOMAIN data : out.pack[k] = data[k]

\* C26: the envelope of every message built has cid "app", uid 0, tcid the
\* device's MAC, i = 1 exactly for bind and scan, t = "pack" with a payload
\* and the command's name without; the pack, when there is one, is
\* {t: command, mac: MAC} with the payload's fields.  BaseDevice's
\* create_status_message builds the message DeviceProtocol2's builds.
C26_MessageBuilders ==
    /\ h_msg.builder = "_generate_payload"
          => EnvelopeOf(h_msg.out, h_msg.command, h_msg.mac, h_msg.data)
    /\ h_msg.builder = "create_status_message"
          => /\ EnvelopeOf(h_msg.out, "status", h_msg.mac, h_msg.data)
             /\ h_msg.out = h_msg.base

C26_Witness ==
    /\ h_msg.builder = "_generate_payload"
    /\ h_msg.command = "scan" /\ h_msg.data = NoData
    /\ h_msg.out.i = 1 /\ h_msg.out.t = "scan"
    /\ h_msg.mac # MAC

\* C27: for both cipher variants, decrypt under the key of the encryption
\* returns the property map that was encrypted; V1 pads the serialised text
\* to the next multiple of 16 bytes, by a whole block when its length is a
\* multiple of 16 already, and V2 does not pad; neither encrypt raises.
C27_CipherRoundTrip ==
    /\ h_crypt.at # "none"
          => /\ h_crypt.at = "encrypted" => h_crypt.dec.raised = "none"
             /\ LET n == Len(json_dumps(h_crypt.x))
                    sent == Len(h_crypt.pack.b64.data)
                IN  IF h_crypt.v = "V1"
                    THEN sent % 16 = 0 /\ sent > n /\ sent <= n + 16
                    ELSE sent = n
    /\ (h_crypt.at = "decrypted" /\ h_crypt.with = h_crypt.key)
          => /\ h_crypt.dec.raised = "none"
             /\ h_crypt.dec.value = h_crypt.x

C27_Witness ==
    /\ h_crypt.at = "decrypted"
    /\ h_crypt.v = "V1" /\ h_crypt.with = h_crypt.key
    /\ Len(json_dumps(h_crypt.x)) = 16
    /\ Len(h_crypt.pack.b64.data) = 32
    /\ h_crypt.dec.value = [k \in {"SwDisFct"} |-> 10]

\* C28: every negotiated bind attempt, a re-bind of a bound handle included,
\* starts with the ready gate un-signalled: when a bind request is written
\* the gate is clear, so that the wait which follows can only end on an
\* acknowledgement received after the request.
C28_BindAttemptStartsUnsignalled ==
    [][ Len(BindRequests(sentLog')) > Len(BindRequests(sentLog)) => ~_ready' ]_vars

\* A bind that ended well on the gate an earlier bind had left signalled:
\* the handle keeps the trial cipher with its default key.
C28_StaleGateReached ==
    /\ pc = "done" /\ op = "bind" /\ result = "ok"
    /\ _cipher \in {CipherV1, CipherV2}
    /\ Len(BindRequests(sentLog)) = 1

\* C29: a datagram whose pack the installed cipher did not decrypt (there is
\* no cipher, or decrypt raised) leaves the Property Map, the session key and
\* the ready gate as they are, and no registered callback is invoked for it.
C29_UndecryptedPackIsInert ==
    [][ \A d \in Calls :
          (~Decrypts(_cipher, d) /\ DatagramReceived(d))
             => /\ UNCHANGED << _properties, _cipher, _ready >>
                /\ h_disp'.invoked = << >> ]_vars

\* C30: whatever set_property calls, state updates and pushes interleave on
\* a handle, the command a push sends carries, for every key a caller's
\* set_property left dirty, the value set_property was last called with for
\* that key, and not a value the unit reported since.
C30_PushSendsLastWrittenValue ==
    [][ (pc # "ps_send" /\ pc' = "ps_send")
           => \A k \in DOMAIN h_written :
                 \E i \in 1..Len(Last(sentLog').keys) :
                    /\ Last(sentLog').keys[i] = k
                    /\ Last(sentLog').vals[i] = h_written[k] ]_vars

\* C31: for every datagram with bytes that parse as a JSON object,
\* packet_received is called exactly once, with the pack decrypted when a
\* cipher is installed and decrypts it, and with the pack as it was received
\* when there is no cipher or decryption fails; for other datagrams it is
\* not called.
C31_PacketReceivedOnce ==
    [][ \A d \in Inbound :
          (d.raw = h_disp'.raw /\ DatagramReceived(d))
             => IF d.raw \in {"empty", "nonjson", "nonobject"}
                THEN h_disp'.calls = 0
                ELSE /\ h_disp'.calls = 1
                     /\ d.raw # "nopack"
                          => h_disp'.pack = IF _cipher # NoCipher /\ d.enc = _cipher
                                            THEN "decrypted" ELSE "as_received" ]_vars

C31_Witness ==
    /\ h_disp.calls = 1
    /\ h_disp.pack = "as_received"
    /\ h_disp.raised = "AttributeError"
    /\ _cipher # NoCipher

\* C32: when packet_received has handled a packet, of whatever type, the
\* drained gate is signalled, even if it was cleared when the packet came.
C32_DrainedSetAfterPacket ==
    [][ (h_disp.calls = 0 /\ h_disp'.calls = 1) => _drained' = TRUE ]_vars

\* C33: every status request update_state sends, from a Device or from an
\* AwhpDevice, lists at most batch_size (23) keys.
C33_StatusRequestsWithinBatch ==
    \A i \in 1..Len(sentLog) :
       sentLog[i].t = "status" => Len(sentLog[i].keys) <= batch_size

\* C34: no command message is ever sent with an empty opt list, also when
\* two push_state_update calls on one handle interleave at their
\* suspension points.
C34_NoEmptyCommand ==
    \A i \in 1..Len(sentLog) : sentLog[i].t = "cmd" => sentLog[i].keys # << >>

\* C35: a push whose auto-bind fails changes neither the Dirty Set nor the
\* Property Map and sends no command: no step the push takes before its
\* snapshot touches them, and when it ends with DeviceNotBoundError or
\* DeviceTimeoutError the keys that were dirty at the call are still dirty,
\* for a later push to send.
C35_FailedAutoBindKeepsChanges ==
    [][ ( /\ op' \in {"push_state_update", "Device.push_state_update"}
          /\ ~h_snap'.taken /\ pc' # pc )
          => /\ UNCHANGED << _properties, _dirty >>
             /\ Commands(sentLog') = << >>
             /\ (pc' = "done" /\ result' \in {"DeviceNotBoundError", "DeviceTimeoutError"})
                   => /\ h_call'.dirty # << >>
                      /\ IsPrefix(h_call'.dirty, _dirty') ]_vars

C35_Witness ==
    /\ PushEnded("DeviceTimeoutError")
    /\ ~h_snap.taken
    /\ h_call.cipher = NoCipher
    /\ h_timeouts = 2
    /\ _dirty = << "Pow", "FastHtWter" >>
    /\ Commands(sentLog) = << >>

\* C36: when SetTem is in the Dirty Set as Device.push_state_update takes
\* its snapshot, the command carries SetTem, TemRec and TemUn, each with the
\* value the Property Map holds for it (None when it holds none), whether
\* or not TemRec and TemUn were dirty.
C36_SetTemBringsCompanions ==
    [][ ( /\ op' = "Device.push_state_update"
          /\ pc # "ps_send" /\ pc' = "ps_send"
          /\ "SetTem" \in Range(_dirty) )
          => LET cmd == Last(sentLog')
             IN  /\ cmd.t = "cmd"
                 /\ \A k \in {"SetTem", "TemRec", "TemUn"} :
                       \E i \in 1..Len(cmd.keys) :
                          cmd.keys[i] = k /\ cmd.vals[i] = Get(_properties, k) ]_vars

C36_Witness ==
    /\ op = "Device.push_state_update" /\ pc = "ps_send"
    /\ h_snap.dirty = << "SetTem" >>
    /\ Get(_properties, "TemUn") = 1
    /\ Last(sentLog).keys = << "SetTem", "TemRec", "TemUn" >>
    /\ Last(sentLog).vals[3] = 1

\* C37: a state update with hid stores it in the hid attribute and not in
\* the Property Map; version becomes the dotted number between "V" and the
\* ".bin" the hid ends with, and keeps its value when the hid has no such
\* ending; a state update without hid changes neither hid nor version.
C37_HidAndVersion ==
    [][ \A d \in HidUpdates :
          (h_disp'.resp = d.pack.t /\ h_disp'.args.data = Zip(d.pack.keys, d.pack.vals)
           /\ DatagramReceived(d))
             => IF d.pack.keys[1] = "hid"
                THEN LET h == HidTable[d.pack.vals[1]]
                     IN  /\ hid' = h
                         /\ "hid" \notin DOMAIN _properties'
                         /\ version' = IF h = "362001000762+U-CS532AE(LT)V3.31.bin" THEN "3.31"
                                       ELSE IF h = "U-V1.21.bin" THEN "1.21"
                                       ELSE version
                ELSE UNCHANGED << hid, version >> ]_vars

C37_Witness ==
    /\ h_disp.resp = "dat"
    /\ hid = "U-V1.21.bin.old"
    /\ version = "3.31"
    /\ "hid" \notin DOMAIN _properties

C39_OffsetCheckRunsOnce ==
    /\ [][ ~check_version => ~check_version' ]_vars
    /\ [][ \A kwargs \in SensorUpdates :
             DeviceStateUpdate(kwargs)
               => LET from_hid == IF "hid" \in DOMAIN kwargs
                                  THEN MatchVersion(HidTable[kwargs["hid"]]) ELSE version
                  IN  IF check_version /\ "TemSen" \in DOMAIN kwargs
                      THEN /\ ~check_version'
                           /\ version' = IF kwargs["TemSen"] # 0 /\ kwargs["TemSen"] < 40
                                         THEN "4.0" ELSE from_hid
                      ELSE /\ UNCHANGED check_version
                           /\ version' = from_hid ]_vars

C39_Witness ==
    /\ ~check_version
    /\ Get(_properties, "TemSen") = 25
    /\ version = "3.31"
    /\ hid = "362001000762+U-CS532AE(LT)V3.31.bin"

SendPcs == {"bind_send", "us_send", "ps_send", "rv_send", "raw_send", "dus_send"}

\* C40: send hands its datagram to the transport once, before it waits on
\* the drained gate: the step that starts a send writes exactly one
\* datagram, nothing is written while the send waits, and when the wait
\* times out (ending update_state, push_state_update or request_version
\* with DeviceTimeoutError) the datagram of that send is the last one
\* written.
C40_WrittenBeforeTheWait ==
    [][ /\ (pc' \in SendPcs /\ (pc' # pc \/ batch_i' # batch_i \/ trial' # trial))
             => Len(sentLog') = Len(sentLog) + 1
        /\ (pc \in SendPcs /\ pc' = pc /\ batch_i' = batch_i /\ trial' = trial)
             => sentLog' = sentLog
        /\ PushSendTimeout
             => /\ sentLog' = sentLog /\ Last(sentLog).t = "cmd"
                /\ Last(sentLog).keys = DictKeys(h_snap.dirty)
                /\ result' = "DeviceTimeoutError"
        /\ UpdateSendTimeout
             => /\ sentLog' = sentLog /\ Last(sentLog).t = "status"
                /\ Last(sentLog).keys = property_batches[batch_i]
                /\ result' = "DeviceTimeoutError"
        /\ VersionSendTimeout
             => /\ sentLog' = sentLog /\ Last(sentLog).t = "status"
                /\ Last(sentLog).keys = << "hid" >>
                /\ result' = "DeviceTimeoutError"
        /\ (BindSendTimeout /\ pc' = "done")
             => /\ sentLog' = sentLog /\ Last(sentLog).t = "bind"
                /\ Last(sentLog).enc = NewCipher(trial) ]_vars

C40_Witness ==
    /\ PushEnded("DeviceTimeoutError")
    /\ h_snap.taken
    /\ ~_drained
    /\ h_call.cipher # NoCipher
    /\ Len(sentLog) = 1
    /\ sentLog[1].t = "cmd"

====
